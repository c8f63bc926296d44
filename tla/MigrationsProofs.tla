--------------------------- MODULE MigrationsProofs ---------------------------
(***************************************************************************)
(* Proofs about Migrations, for any objects, versions and keys and any     *)
(* number of commits and commands.                                         *)
(***************************************************************************)
EXTENDS Migrations, FiniteSetTheorems, TLAPS

-------------------------------------------------------------------------------
\* The inductive invariant.

WellFormed(d) ==
    /\ d = [version |-> d.version, object |-> d.object, described |-> d.described,
            table |-> d.table, content |-> d.content, reservation |-> d.reservation]
    /\ d.version \subseteq Version
    /\ d.described \subseteq DOMAIN d.object
    /\ d.table \in [Operation -> SUBSET Key]
    /\ d.content \subseteq d.table["PRODUCER_EXECUTION"]
    /\ d.reservation \subseteq Row

\* A row of an operation is named by the reservation of its key, and of no operation that the
\* revision does not know.
Named(r, d) ==
    \A t \in Operation : \A k \in d.table[t] :
        Since[t] <= r /\ \E row \in d.reservation : row.key = k /\ row.names = t

\* What no CHECK says of a reservation: at revision 1 it has neither a type nor a reason, and it
\* names an approval, or nothing if it was a transition before a downgrade; from revision 2 on
\* the reason of a rejection is one of its operation.
Known(r, row) ==
    IF r < 2 THEN row.type = Null /\ row.reason = Null /\ row.names \in {"APPROVED_STATE_COMMIT", Null}
    ELSE row.status = "REJECTED" => ReasonSince[row.reason] = Since[row.type]

Sound(r, d) ==
    /\ WellFormed(d) /\ Named(r, d) /\ Fits(r, d)
    /\ \A row \in d.reservation : Known(r, row)
    /\ r = 0 => d = Empty

IndInv ==
    /\ revision \in 0..4
    /\ Sound(revision, data)
    /\ command # Null => command.to \in 0..4 /\ command.to # revision
    /\ last \in {"none", "done", "refused", "failed", "interrupted"}
    /\ writes \in 0..MaxWrites /\ commands \in 0..MaxCommands

\* The parts of the invariant give the types.
LEMMA TypesFollow == IndInv => TypeOK
<1> SUFFICES ASSUME IndInv PROVE TypeOK
  OBVIOUS
<1>1. ASSUME NEW t \in Operation, Since[t] > revision PROVE data.table[t] = {}
  <2>1. Since[t] \in Nat
    BY DEF Since, Operation
  <2>2. \A k \in data.table[t] : Since[t] <= revision
    BY DEF IndInv, Sound, Named
  <2> QED BY <1>1, <2>1, <2>2 DEF IndInv
<1> QED BY <1>1 DEF IndInv, Sound, WellFormed, TypeOK

\* The operations and their revisions.
LEMMA SinceLemma ==
    /\ Operation = {"APPROVED_STATE_COMMIT", "WORKFLOW_TRANSITION", "CONTEXT_ASSEMBLY",
                    "PRODUCER_EXECUTION"}
    /\ Since["APPROVED_STATE_COMMIT"] = 1 /\ Since["WORKFLOW_TRANSITION"] = 2
    /\ Since["CONTEXT_ASSEMBLY"] = 3 /\ Since["PRODUCER_EXECUTION"] = 4
    /\ \A t \in Operation : Since[t] \in 1..4 /\ t # Null
    /\ DOMAIN ReasonSince = {"STATE_CONFLICT", "NEWER_VERSION_AVAILABLE", "INVALID_CONTEXT_PACKAGE"}
    /\ \A reason \in DOMAIN ReasonSince : ReasonSince[reason] \in 2..4 /\ reason # Null
<1>1. /\ Operation = {"APPROVED_STATE_COMMIT", "WORKFLOW_TRANSITION", "CONTEXT_ASSEMBLY",
                      "PRODUCER_EXECUTION"}
      /\ Since["APPROVED_STATE_COMMIT"] = 1 /\ Since["WORKFLOW_TRANSITION"] = 2
      /\ Since["CONTEXT_ASSEMBLY"] = 3 /\ Since["PRODUCER_EXECUTION"] = 4
  BY DEF Operation, Since
<1>2. /\ DOMAIN ReasonSince = {"STATE_CONFLICT", "NEWER_VERSION_AVAILABLE", "INVALID_CONTEXT_PACKAGE"}
      /\ \A reason \in DOMAIN ReasonSince : ReasonSince[reason] \in 2..4
  BY DEF ReasonSince
<1>3. Null \notin Operation \union DOMAIN ReasonSince
  BY MigrationsAssumption
<1> QED BY <1>1, <1>2, <1>3

\* A database with nothing in it is sound at every revision.
LEMMA EmptyLemma == ASSUME NEW r \in 0..4 PROVE Sound(r, Empty)
<1>1. /\ Empty.version = {} /\ Empty.described = {} /\ Empty.content = {} /\ Empty.reservation = {}
      /\ Empty.table = [t \in Operation |-> {}]
      /\ Empty = [version |-> Empty.version, object |-> Empty.object, described |-> Empty.described,
                  table |-> Empty.table, content |-> Empty.content, reservation |-> Empty.reservation]
  BY DEF Empty
<1>2. WellFormed(Empty)
  BY <1>1, SinceLemma DEF WellFormed
<1>3. Named(r, Empty)
  BY <1>1 DEF Named
<1>4. Fits(r, Empty)
  BY <1>1 DEF Fits, KeyedOnce, AllRegistered, NumberedOnce
<1> QED BY <1>1, <1>2, <1>3, <1>4 DEF Sound

\* An empty database, at the revision it starts at.
LEMMA InitInv == Init => IndInv
<1> SUFFICES ASSUME Init PROVE IndInv
  OBVIOUS
<1>1. revision \in 0..4 /\ MaxWrites \in Nat /\ MaxCommands \in Nat
  BY MigrationsAssumption DEF Init
<1>2. Sound(revision, data)
  BY <1>1, EmptyLemma DEF Init
<1> QED BY <1>1, <1>2 DEF Init, IndInv

-------------------------------------------------------------------------------
\* The program writes what the schema of the revision lets it.

\* A row that nothing contradicts.
LEMMA ReserveLemma ==
    ASSUME NEW r \in 1..4, NEW R \in SUBSET Row, NEW row \in Row,
           \A x \in R : RowFits(r, x), KeyedOnce(r, R), RowFits(r, row),
           ~ \E x \in R : x.key = row.key /\ (r >= 2 => x.type = row.type)
    PROVE  (\A x \in R \union {row} : RowFits(r, x)) /\ KeyedOnce(r, R \union {row})
BY DEF KeyedOnce

LEMMA CommitStep ==
    ASSUME IndInv, NEW t \in Operation, NEW k \in Key, Commit(t, k)
    PROVE  Sound(revision, data)'
<1>0. PICK d : d = data
  OBVIOUS
<1>1. PICK r \in 0..4 : r = revision /\ d = data
  BY <1>0 DEF IndInv
<1>2. PICK row : row = [key |-> k, type |-> IF r = 1 THEN Null ELSE t,
                        status |-> "COMMITTED", names |-> t, reason |-> Null]
  OBVIOUS
<1>3. /\ row \in Row /\ row.key = k /\ row.names = t /\ row.status = "COMMITTED" /\ row.reason = Null
      /\ row.type = IF r = 1 THEN Null ELSE t
  BY <1>2 DEF Row
<1>4. PICK e : /\ e = [d EXCEPT !.table[t] = @ \union {k}, !.reservation = @ \union {row}]
               /\ data' = e /\ revision' = r
  BY <1>1, <1>2 DEF Commit, Write
<1>5. /\ r >= Since[t] /\ Since[t] \in 1..4 /\ r \in 1..4 /\ t # Null
      /\ ~ \E x \in d.reservation : x.key = k /\ (r >= 2 => x.type = t)
  BY <1>1, SinceLemma DEF Commit, Reserved
<1>6. WellFormed(d) /\ Named(r, d) /\ Fits(r, d) /\ \A x \in d.reservation : Known(r, x)
  BY <1>1 DEF IndInv, Sound
<1>7. /\ e = [version |-> e.version, object |-> e.object, described |-> e.described,
              table |-> e.table, content |-> e.content, reservation |-> e.reservation]
      /\ e.version = d.version /\ e.object = d.object /\ e.described = d.described
      /\ e.content = d.content /\ e.reservation = d.reservation \union {row}
      /\ e.table = [d.table EXCEPT ![t] = @ \union {k}]
  BY <1>4, <1>6 DEF WellFormed
<1>8. e.table \in [Operation -> SUBSET Key]
      /\ \A u \in Operation : e.table[u] = IF u = t THEN d.table[t] \union {k} ELSE d.table[u]
  BY <1>6, <1>7 DEF WellFormed
<1>9. WellFormed(e)
  BY <1>3, <1>6, <1>7, <1>8, SinceLemma DEF WellFormed
<1>10. Named(r, e)
  <2> SUFFICES ASSUME NEW u \in Operation, NEW j \in e.table[u]
               PROVE  Since[u] <= r /\ \E x \in e.reservation : x.key = j /\ x.names = u
    BY DEF Named
  <2>1. CASE u = t /\ j = k
    BY <1>3, <1>5, <1>7, <2>1
  <2>2. CASE j \in d.table[u]
    BY <1>6, <1>7, <2>2 DEF Named
  <2> QED BY <1>8, <2>1, <2>2
<1>11. RowFits(r, row) /\ Known(r, row)
  <2>1. CASE r = 1
    <3>1. t = "APPROVED_STATE_COMMIT"
      BY <1>5, <2>1, SinceLemma
    <3> QED BY <1>3, <2>1, <3>1 DEF RowFits, Known
  <2>2. CASE r # 1
    BY <1>3, <1>5, <2>2 DEF RowFits, Known
  <2> QED BY <2>1, <2>2
<1>12. Fits(r, e)
  <2>1. (\A x \in d.reservation : RowFits(r, x)) /\ KeyedOnce(r, d.reservation) /\ d.reservation \in SUBSET Row
    BY <1>5, <1>6 DEF Fits, WellFormed
  <2>2. ~ \E x \in d.reservation : x.key = row.key /\ (r >= 2 => x.type = row.type)
    BY <1>3, <1>5
  <2>3. (\A x \in e.reservation : RowFits(r, x)) /\ KeyedOnce(r, e.reservation)
    BY <1>3, <1>5, <1>7, <1>11, <2>1, <2>2, ReserveLemma
  <2> QED BY <1>6, <1>7, <2>3 DEF Fits, AllRegistered
<1> QED BY <1>4, <1>5, <1>6, <1>7, <1>9, <1>10, <1>11, <1>12 DEF Sound

LEMMA RejectStep ==
    ASSUME IndInv, NEW t \in Operation, NEW k \in Key, Reject(t, k)
    PROVE  Sound(revision, data)'
<1>0. PICK d : d = data
  OBVIOUS
<1>1. PICK r \in 0..4 : r = revision /\ d = data
  BY <1>0 DEF IndInv
<1>2. PICK reason \in DOMAIN ReasonSince :
          /\ ReasonSince[reason] = Since[t]
          /\ Write([data EXCEPT !.reservation = @ \union
                      {[key |-> k, type |-> t, status |-> "REJECTED", names |-> Null,
                        reason |-> reason]}])
  BY DEF Reject
<1>3. PICK row : row = [key |-> k, type |-> t, status |-> "REJECTED", names |-> Null, reason |-> reason]
  OBVIOUS
<1>4. /\ row \in Row /\ row.key = k /\ row.names = Null /\ row.status = "REJECTED"
      /\ row.reason = reason /\ row.type = t
  BY <1>3 DEF Row
<1>5. PICK e : e = [d EXCEPT !.reservation = @ \union {row}] /\ data' = e /\ revision' = r
  BY <1>1, <1>2, <1>3 DEF Write
<1>6. /\ r >= Since[t] /\ Since[t] \in 1..4 /\ r \in 2..4 /\ t # Null /\ reason # Null
      /\ t # "APPROVED_STATE_COMMIT"
      /\ ~ \E x \in d.reservation : x.key = k /\ (r >= 2 => x.type = t)
  BY <1>1, SinceLemma DEF Reject, Reserved
<1>7. WellFormed(d) /\ Named(r, d) /\ Fits(r, d) /\ \A x \in d.reservation : Known(r, x)
  BY <1>1 DEF IndInv, Sound
<1>8. /\ e = [version |-> e.version, object |-> e.object, described |-> e.described,
              table |-> e.table, content |-> e.content, reservation |-> e.reservation]
      /\ e.version = d.version /\ e.object = d.object /\ e.described = d.described
      /\ e.content = d.content /\ e.reservation = d.reservation \union {row} /\ e.table = d.table
  BY <1>5, <1>7 DEF WellFormed
<1>9. WellFormed(e) /\ Named(r, e)
  BY <1>4, <1>7, <1>8 DEF WellFormed, Named
<1>10. RowFits(r, row) /\ Known(r, row)
  BY <1>2, <1>4, <1>6 DEF RowFits, Known
<1>11. Fits(r, e)
  <2>1. (\A x \in d.reservation : RowFits(r, x)) /\ KeyedOnce(r, d.reservation) /\ d.reservation \in SUBSET Row
    BY <1>6, <1>7 DEF Fits, WellFormed
  <2>2. ~ \E x \in d.reservation : x.key = row.key /\ (r >= 2 => x.type = row.type)
    BY <1>4, <1>6
  <2>3. (\A x \in e.reservation : RowFits(r, x)) /\ KeyedOnce(r, e.reservation)
    BY <1>4, <1>6, <1>8, <1>10, <2>1, <2>2, ReserveLemma
  <2> QED BY <1>7, <1>8, <2>3 DEF Fits, AllRegistered
<1> QED BY <1>5, <1>6, <1>7, <1>8, <1>9, <1>10, <1>11 DEF Sound

\* A commit that touches no reservation.
LEMMA QuietWriteLemma ==
    ASSUME IndInv, NEW r \in 1..4, r = revision, NEW d, d = data, NEW e, WellFormed(e),
           e.table = d.table, e.reservation = d.reservation,
           r >= 3 => AllRegistered(e), r >= 4 => NumberedOnce(e.version)
    PROVE  Sound(r, e)
BY DEF IndInv, Sound, Named, Fits

LEMMA OtherWriteStep ==
    ASSUME IndInv,
           \/ \E k \in Key : Publish(k)
           \/ \E v \in Version : InsertVersion(v)
           \/ \E o \in Object : Register(o) \/ Describe(o)
    PROVE  Sound(revision, data)'
<1>0. PICK d : d = data
  OBVIOUS
<1>1. PICK r \in 0..4 : r = revision /\ d = data
  BY <1>0 DEF IndInv
<1>2. /\ WellFormed(d) /\ (r = 0 => d = Empty) /\ Named(r, d)
      /\ r >= 3 => AllRegistered(d)
      /\ r >= 4 => NumberedOnce(d.version)
  BY <1>1 DEF IndInv, Sound, Fits
<1>3. ASSUME NEW k \in Key, Publish(k) PROVE Sound(revision, data)'
  <2>1. PICK e : e = [d EXCEPT !.content = @ \union {k}] /\ data' = e /\ revision' = r
    BY <1>1, <1>3 DEF Publish, Write
  <2>2. /\ k \in d.table["PRODUCER_EXECUTION"] /\ "PRODUCER_EXECUTION" \in Operation
        /\ Since["PRODUCER_EXECUTION"] = 4
    BY <1>1, <1>3, SinceLemma DEF Publish
  <2>3. r \in 1..4
    BY <1>2, <2>2 DEF Named
  <2>4. /\ e = [version |-> e.version, object |-> e.object, described |-> e.described,
                table |-> e.table, content |-> e.content, reservation |-> e.reservation]
        /\ e.version = d.version /\ e.object = d.object /\ e.described = d.described
        /\ e.content = d.content \union {k} /\ e.reservation = d.reservation /\ e.table = d.table
    BY <1>2, <2>1 DEF WellFormed
  <2>5. WellFormed(e)
    BY <1>2, <2>2, <2>4 DEF WellFormed
  <2>6. (r >= 3 => AllRegistered(e)) /\ (r >= 4 => NumberedOnce(e.version))
    BY <1>2, <2>4 DEF AllRegistered
  <2> QED BY <1>1, <2>1, <2>3, <2>4, <2>5, <2>6, QuietWriteLemma
<1>4. ASSUME NEW v \in Version, InsertVersion(v) PROVE Sound(revision, data)'
  <2>1. PICK e : e = [d EXCEPT !.version = @ \union {v}] /\ data' = e /\ revision' = r
    BY <1>1, <1>4 DEF InsertVersion, Write
  <2>2. /\ r \in 1..4 /\ (r >= 3 => ObjectOf[v] \in DOMAIN d.object)
        /\ r >= 4 => NumberedOnce(d.version \union {v})
    BY <1>1, <1>4 DEF InsertVersion
  <2>3. /\ e = [version |-> e.version, object |-> e.object, described |-> e.described,
                table |-> e.table, content |-> e.content, reservation |-> e.reservation]
        /\ e.version = d.version \union {v} /\ e.object = d.object /\ e.described = d.described
        /\ e.content = d.content /\ e.reservation = d.reservation /\ e.table = d.table
    BY <1>2, <2>1 DEF WellFormed
  <2>4. WellFormed(e)
    BY <1>2, <2>3 DEF WellFormed
  <2>5. (r >= 3 => AllRegistered(e)) /\ (r >= 4 => NumberedOnce(e.version))
    BY <1>2, <2>2, <2>3 DEF AllRegistered
  <2> QED BY <1>1, <2>1, <2>2, <2>3, <2>4, <2>5, QuietWriteLemma
<1>5. ASSUME NEW o \in Object, Register(o) PROVE Sound(revision, data)'
  <2>1. PICK f : f = [x \in DOMAIN d.object \union {o} |-> IF x = o THEN "typed" ELSE d.object[x]]
    OBVIOUS
  <2>2. PICK e : e = [d EXCEPT !.object = f] /\ data' = e /\ revision' = r
    BY <1>1, <1>5, <2>1 DEF Register, Write
  <2>3. r \in 1..4
    BY <1>1, <1>5 DEF Register
  <2>4. /\ e = [version |-> e.version, object |-> e.object, described |-> e.described,
                table |-> e.table, content |-> e.content, reservation |-> e.reservation]
        /\ e.version = d.version /\ e.object = f /\ e.described = d.described
        /\ e.content = d.content /\ e.reservation = d.reservation /\ e.table = d.table
    BY <1>2, <2>2 DEF WellFormed
  <2>5. WellFormed(e)
    BY <1>2, <2>1, <2>4 DEF WellFormed
  <2>6. (r >= 3 => AllRegistered(e)) /\ (r >= 4 => NumberedOnce(e.version))
    BY <1>2, <2>1, <2>4 DEF AllRegistered
  <2> QED BY <1>1, <2>2, <2>3, <2>4, <2>5, <2>6, QuietWriteLemma
<1>6. ASSUME NEW o \in Object, Describe(o) PROVE Sound(revision, data)'
  <2>1. PICK e : e = [d EXCEPT !.described = @ \union {o}] /\ data' = e /\ revision' = r
    BY <1>1, <1>6 DEF Describe, Write
  <2>2. o \in DOMAIN d.object
    BY <1>1, <1>6 DEF Describe
  <2>3. r \in 1..4
    <3>1. DOMAIN Empty.object = {}
      BY DEF Empty
    <3> QED BY <1>2, <2>2, <3>1
  <2>4. /\ e = [version |-> e.version, object |-> e.object, described |-> e.described,
                table |-> e.table, content |-> e.content, reservation |-> e.reservation]
        /\ e.version = d.version /\ e.object = d.object /\ e.described = d.described \union {o}
        /\ e.content = d.content /\ e.reservation = d.reservation /\ e.table = d.table
    BY <1>2, <2>1 DEF WellFormed
  <2>5. WellFormed(e)
    BY <1>2, <2>2, <2>4 DEF WellFormed
  <2>6. (r >= 3 => AllRegistered(e)) /\ (r >= 4 => NumberedOnce(e.version))
    BY <1>2, <2>4 DEF AllRegistered
  <2> QED BY <1>1, <2>1, <2>3, <2>4, <2>5, <2>6, QuietWriteLemma
<1> QED BY <1>3, <1>4, <1>5, <1>6

LEMMA ProgramStep ==
    ASSUME IndInv, Program
    PROVE  IndInv'
<1>1. Sound(revision, data)'
  BY CommitStep, RejectStep, OtherWriteStep DEF Program
<1>2. \E d : Write(d)
  BY DEF Program, Publish, Commit, Reject, InsertVersion, Register, Describe
<1>3. /\ revision' = revision /\ command' = command /\ last' = last /\ commands' = commands
      /\ writes < MaxWrites /\ writes' = writes + 1
  BY <1>2 DEF Write
<1>4. writes' \in 0..MaxWrites
  BY <1>3, MigrationsAssumption DEF IndInv
<1> QED BY <1>1, <1>3, <1>4 DEF IndInv

-------------------------------------------------------------------------------
\* What a revision does to the rows.

Upgraded(row) == [row EXCEPT !.type = "APPROVED_STATE_COMMIT"]
Downgraded(row) == [row EXCEPT !.type = Null, !.reason = Null,
                               !.names = IF @ = "WORKFLOW_TRANSITION" THEN Null ELSE @]

LEMMA RelabelLemma ==
    ASSUME NEW row \in Row
    PROVE  /\ Upgraded(row) \in Row /\ Upgraded(row).type = "APPROVED_STATE_COMMIT"
           /\ Upgraded(row).key = row.key /\ Upgraded(row).status = row.status
           /\ Upgraded(row).names = row.names /\ Upgraded(row).reason = row.reason
           /\ Downgraded(row) \in Row /\ Downgraded(row).type = Null /\ Downgraded(row).reason = Null
           /\ Downgraded(row).key = row.key /\ Downgraded(row).status = row.status
           /\ Downgraded(row).names = IF row.names = "WORKFLOW_TRANSITION" THEN Null ELSE row.names
<1>1. "APPROVED_STATE_COMMIT" \in Operation
  BY SinceLemma
<1> QED BY <1>1 DEF Upgraded, Downgraded, Row

\* The promise of NothingLost, of the rows d and the rows e of revision r.
Kept(d, r, e) ==
    /\ e.version = d.version
    /\ e.content = d.content
    /\ \A t \in Operation \ {"WORKFLOW_TRANSITION"} : e.table[t] = d.table[t]
    /\ \A k \in Key : Cardinality({row \in e.reservation : row.key = k})
                       = Cardinality({row \in d.reservation : row.key = k})
    /\ \A k \in d.table["APPROVED_STATE_COMMIT"] :
          \E row \in e.reservation :
             /\ row.key = k /\ row.names = "APPROVED_STATE_COMMIT"
             /\ row.type = IF r = 1 THEN Null ELSE "APPROVED_STATE_COMMIT"

\* The reservation that names an approval has the type the revision gives it.
LEMMA ApprovalLemma ==
    ASSUME NEW r \in 1..4, NEW d, Sound(r, d), NEW k \in d.table["APPROVED_STATE_COMMIT"]
    PROVE  \E row \in d.reservation :
              /\ row.key = k /\ row.names = "APPROVED_STATE_COMMIT"
              /\ row.type = IF r = 1 THEN Null ELSE "APPROVED_STATE_COMMIT"
<1>1. PICK row \in d.reservation : row.key = k /\ row.names = "APPROVED_STATE_COMMIT"
  BY SinceLemma DEF Sound, Named
<1>2. RowFits(r, row) /\ Known(r, row) /\ "APPROVED_STATE_COMMIT" # Null
  BY SinceLemma DEF Sound, Fits
<1>3. row.type = IF r = 1 THEN Null ELSE "APPROVED_STATE_COMMIT"
  <2>1. CASE r = 1
    BY <1>2, <2>1 DEF Known
  <2>2. CASE r # 1
    BY <1>1, <1>2, <2>2 DEF RowFits
  <2> QED BY <2>1, <2>2
<1> QED BY <1>1, <1>3

\* Sets of at most one element, empty together, have one cardinality.
LEMMA AtMostOneLemma ==
    ASSUME NEW A, NEW B, \A x, y \in A : x = y, \A x, y \in B : x = y, A = {} <=> B = {}
    PROVE  Cardinality(A) = Cardinality(B)
<1>1. CASE A = {}
  BY <1>1
<1>2. CASE A # {}
  <2>1. PICK a \in A, b \in B : TRUE
    BY <1>2
  <2>2. A = {a} /\ B = {b}
    OBVIOUS
  <2> QED BY <2>2, FS_Singleton
<1> QED BY <1>1, <1>2

\* A revision that leaves the reservations and the tables as they are but one, which is empty.
LEMMA SameReservationsLemma ==
    ASSUME NEW r \in 1..4, NEW d, NEW e, Sound(r, e), e.version = d.version, e.content = d.content,
           e.reservation = d.reservation,
           \A t \in Operation \ {"WORKFLOW_TRANSITION"} : e.table[t] = d.table[t]
    PROVE  Kept(d, r, e)
<1>1. e.table["APPROVED_STATE_COMMIT"] = d.table["APPROVED_STATE_COMMIT"]
  BY SinceLemma
<1> QED BY <1>1, ApprovalLemma DEF Kept

\* An operation the revision does not know has no rows, and its table is created or dropped empty.
LEMMA UnknownLemma ==
    ASSUME NEW r \in 0..4, NEW d, Sound(r, d), NEW t \in Operation, Since[t] > r
    PROVE  d.table[t] = {}
BY SinceLemma DEF Sound, Named, WellFormed

\* Nor does one whose rows the constraints of the new revision would not let in.
LEMMA DroppedLemma ==
    ASSUME NEW r \in 2..4, NEW d, Sound(r, d), NEW to \in 2..4,
           \A row \in d.reservation : RowFits(to, row), NEW t \in Operation, Since[t] > to
    PROVE  d.table[t] = {} /\ \A row \in d.reservation : row.names # t
<1>1. ASSUME NEW row \in d.reservation PROVE row.names # t
  <2>1. RowFits(to, row) /\ t # Null /\ Since[t] \in 1..4
    BY SinceLemma
  <2> QED BY <2>1 DEF RowFits
<1>2. \A k \in d.table[t] : FALSE
  BY <1>1 DEF Sound, Named
<1> QED BY <1>1, <1>2

LEMMA Upgrade0001Lemma ==
    ASSUME NEW d, Sound(0, d), NEW e, e = Upgrade0001(d)
    PROVE  Sound(1, e) /\ Kept(d, 1, e) /\ e = Empty
<1>1. e = Empty /\ d = Empty
  BY DEF Upgrade0001, Sound
<1>2. Sound(1, e)
  BY <1>1, EmptyLemma
<1> QED BY <1>1, <1>2, SameReservationsLemma

LEMMA Upgrade0002Lemma ==
    ASSUME NEW d, Sound(1, d), NEW e, e = Upgrade0002(d), Fits(2, e)
    PROVE  Sound(2, e) /\ Kept(d, 2, e)
<1>1. WellFormed(d) /\ Named(1, d) /\ Fits(1, d) /\ \A x \in d.reservation : Known(1, x)
  BY DEF Sound
<1>2. /\ e = [version |-> e.version, object |-> e.object, described |-> e.described,
              table |-> e.table, content |-> e.content, reservation |-> e.reservation]
      /\ e.version = d.version /\ e.object = d.object /\ e.described = d.described
      /\ e.content = d.content /\ e.table = [d.table EXCEPT !["WORKFLOW_TRANSITION"] = {}]
      /\ e.reservation = {Upgraded(row) : row \in d.reservation}
  BY <1>1 DEF Upgrade0002, WellFormed, Upgraded
<1>3. \A row \in d.reservation : row \in Row
  BY <1>1 DEF WellFormed
<1>4. /\ e.table \in [Operation -> SUBSET Key]
      /\ \A t \in Operation : e.table[t] = IF t = "WORKFLOW_TRANSITION" THEN {} ELSE d.table[t]
  BY <1>1, <1>2 DEF WellFormed
<1>5. WellFormed(e)
  <2>1. e.reservation \subseteq Row
    BY <1>2, <1>3, RelabelLemma
  <2>2. e.content \subseteq e.table["PRODUCER_EXECUTION"]
    BY <1>1, <1>2, <1>4, SinceLemma DEF WellFormed
  <2> QED BY <1>1, <1>2, <1>4, <2>1, <2>2 DEF WellFormed
<1>6. Named(2, e)
  <2> SUFFICES ASSUME NEW t \in Operation, NEW k \in e.table[t]
               PROVE  Since[t] <= 2 /\ \E row \in e.reservation : row.key = k /\ row.names = t
    BY DEF Named
  <2>1. k \in d.table[t]
    BY <1>4
  <2>2. Since[t] <= 1 /\ \E row \in d.reservation : row.key = k /\ row.names = t
    BY <1>1, <2>1 DEF Named
  <2>3. PICK row \in d.reservation : row.key = k /\ row.names = t
    BY <2>2
  <2>4. Upgraded(row) \in e.reservation /\ Upgraded(row).key = k /\ Upgraded(row).names = t
    BY <1>2, <1>3, <2>3, RelabelLemma
  <2> QED BY <2>2, <2>4, SinceLemma
<1>7. \A row \in e.reservation : Known(2, row)
  <2> SUFFICES ASSUME NEW x \in d.reservation PROVE Known(2, Upgraded(x))
    BY <1>2
  <2>1. x.status = "COMMITTED"
    BY <1>1 DEF Fits, RowFits
  <2> QED BY <1>3, <2>1, RelabelLemma DEF Known
<1>8. Sound(2, e)
  BY <1>5, <1>6, <1>7 DEF Sound
<1>9. ASSUME NEW k \in Key
      PROVE  Cardinality({row \in e.reservation : row.key = k})
              = Cardinality({row \in d.reservation : row.key = k})
  <2> DEFINE A == {row \in e.reservation : row.key = k}
             B == {row \in d.reservation : row.key = k}
  <2>1. \A x, y \in B : x = y
    BY <1>1 DEF Fits, KeyedOnce
  <2>2. ASSUME NEW a \in A PROVE \E x \in B : a = Upgraded(x)
    <3>1. PICK x \in d.reservation : a = Upgraded(x)
      BY <1>2
    <3> QED BY <1>3, <3>1, RelabelLemma
  <2>3. \A x \in B : Upgraded(x) \in A
    BY <1>2, <1>3, RelabelLemma
  <2>4. \A x, y \in A : x = y
    BY <2>1, <2>2
  <2>5. A = {} <=> B = {}
    BY <2>2, <2>3
  <2> HIDE DEF A, B
  <2>6. Cardinality(A) = Cardinality(B)
    BY <2>1, <2>4, <2>5, AtMostOneLemma
  <2> QED BY <2>6 DEF A, B
<1>10. /\ \A t \in Operation \ {"WORKFLOW_TRANSITION"} : e.table[t] = d.table[t]
       /\ e.table["APPROVED_STATE_COMMIT"] = d.table["APPROVED_STATE_COMMIT"]
  BY <1>4, SinceLemma
<1>11. \A k \in d.table["APPROVED_STATE_COMMIT"] :
          \E row \in e.reservation :
             /\ row.key = k /\ row.names = "APPROVED_STATE_COMMIT"
             /\ row.type = IF 2 = 1 THEN Null ELSE "APPROVED_STATE_COMMIT"
  BY <1>8, <1>10, ApprovalLemma
<1> QED BY <1>2, <1>8, <1>9, <1>10, <1>11 DEF Kept

\* Upgrade of 0003: a table of objects, from whatever the backfill has seen.
LEMMA Upgrade0003Lemma ==
    ASSUME NEW d, Sound(2, d), NEW seen, NEW e, e = Upgrade0003(d, seen), Fits(3, e)
    PROVE  Sound(3, e) /\ Kept(d, 3, e) /\ e.reservation = d.reservation
<1>1. WellFormed(d) /\ Named(2, d) /\ \A x \in d.reservation : Known(2, x)
  BY DEF Sound
<1>2. d.table["CONTEXT_ASSEMBLY"] = {} /\ "CONTEXT_ASSEMBLY" \in Operation
  BY SinceLemma, UnknownLemma
<1>3. /\ e = [version |-> e.version, object |-> e.object, described |-> e.described,
              table |-> e.table, content |-> e.content, reservation |-> e.reservation]
      /\ e.version = d.version /\ e.described = {} /\ e.content = d.content
      /\ e.reservation = d.reservation
      /\ e.table = [d.table EXCEPT !["CONTEXT_ASSEMBLY"] = {}]
  BY <1>1 DEF Upgrade0003, WellFormed
<1>4. e.table = d.table
  BY <1>1, <1>2, <1>3 DEF WellFormed
<1>5. WellFormed(e) /\ Named(3, e) /\ \A x \in e.reservation : Known(3, x)
  <2>1. WellFormed(e)
    BY <1>1, <1>3, <1>4 DEF WellFormed
  <2>2. Named(3, e)
    BY <1>1, <1>3, <1>4, SinceLemma DEF Named
  <2> QED BY <1>1, <1>3, <2>1, <2>2 DEF Known
<1>6. Sound(3, e)
  BY <1>5 DEF Sound
<1> QED BY <1>3, <1>4, <1>6, SameReservationsLemma

\* Upgrade and downgrade of 0004: what the producer has written is not there.
LEMMA Revision0004Lemma ==
    ASSUME NEW r \in 3..4, NEW d, Sound(r, d), NEW to \in 3..4, NEW e,
           e \in {Upgrade0004(d), Downgrade0004(d)}, Fits(to, e), r = 3 \/ to = 3
    PROVE  Sound(to, e) /\ Kept(d, to, e) /\ e.reservation = d.reservation
<1>1. WellFormed(d) /\ Named(r, d) /\ \A x \in d.reservation : Known(r, x)
  BY DEF Sound
<1>2. /\ e = [version |-> e.version, object |-> e.object, described |-> e.described,
              table |-> e.table, content |-> e.content, reservation |-> e.reservation]
      /\ e.version = d.version /\ e.object = d.object /\ e.described = d.described
      /\ e.content = {} /\ e.reservation = d.reservation
      /\ e.table = [d.table EXCEPT !["PRODUCER_EXECUTION"] = {}]
  BY <1>1 DEF WellFormed, Upgrade0004, Downgrade0004
<1>3. d.table["PRODUCER_EXECUTION"] = {}
  <2>1. CASE r = 3
    BY <2>1, SinceLemma, UnknownLemma
  <2>2. CASE to = 3
    <3>1. \A row \in d.reservation : RowFits(3, row)
      BY <1>2, <2>2 DEF Fits
    <3> QED BY <3>1, SinceLemma, DroppedLemma
  <2> QED BY <2>1, <2>2
<1>4. e.table = d.table /\ e.content = d.content
  BY <1>1, <1>2, <1>3, SinceLemma DEF WellFormed
<1>5. WellFormed(e)
  BY <1>1, <1>2, <1>4 DEF WellFormed
<1>6. Named(to, e)
  <2> SUFFICES ASSUME NEW t \in Operation, NEW k \in e.table[t]
               PROVE  Since[t] <= to /\ \E row \in e.reservation : row.key = k /\ row.names = t
    BY DEF Named
  <2>1. Since[t] <= r /\ \E row \in e.reservation : row.key = k /\ row.names = t
    BY <1>1, <1>2, <1>4 DEF Named
  <2>2. t # "PRODUCER_EXECUTION"
    BY <1>3, <1>4
  <2> QED BY <2>1, <2>2, SinceLemma
<1>7. Sound(to, e)
  BY <1>1, <1>2, <1>5, <1>6 DEF Sound, Known
<1> QED BY <1>2, <1>4, <1>7, SameReservationsLemma

LEMMA Downgrade0003Lemma ==
    ASSUME NEW d, Sound(3, d), NEW e, e = Downgrade0003(d), Fits(2, e)
    PROVE  Sound(2, e) /\ Kept(d, 2, e) /\ e.reservation = d.reservation
<1>1. WellFormed(d) /\ Named(3, d) /\ \A x \in d.reservation : Known(3, x)
  BY DEF Sound
<1>2. /\ e = [version |-> e.version, object |-> e.object, described |-> e.described,
              table |-> e.table, content |-> e.content, reservation |-> e.reservation]
      /\ e.version = d.version /\ e.described = {} /\ e.content = d.content
      /\ e.reservation = d.reservation
      /\ e.table = [d.table EXCEPT !["CONTEXT_ASSEMBLY"] = {}]
  BY <1>1 DEF Downgrade0003, WellFormed
<1>3. d.table["CONTEXT_ASSEMBLY"] = {} /\ "CONTEXT_ASSEMBLY" \in Operation
  <2>1. \A row \in d.reservation : RowFits(2, row)
    BY <1>2 DEF Fits
  <2> QED BY <2>1, SinceLemma, DroppedLemma
<1>4. e.table = d.table
  BY <1>1, <1>2, <1>3 DEF WellFormed
<1>5. WellFormed(e)
  BY <1>1, <1>2, <1>4 DEF WellFormed
<1>6. Named(2, e)
  <2> SUFFICES ASSUME NEW t \in Operation, NEW k \in e.table[t]
               PROVE  Since[t] <= 2 /\ \E row \in e.reservation : row.key = k /\ row.names = t
    BY DEF Named
  <2>1. Since[t] <= 3 /\ \E row \in e.reservation : row.key = k /\ row.names = t
    BY <1>1, <1>2, <1>4 DEF Named
  <2>2. t # "CONTEXT_ASSEMBLY"
    BY <1>3, <1>4
  <2> QED BY <2>1, <2>2, SinceLemma
<1>7. Sound(2, e)
  BY <1>1, <1>2, <1>5, <1>6 DEF Sound, Known
<1> QED BY <1>2, <1>4, <1>7, SameReservationsLemma

LEMMA Downgrade0002Lemma ==
    ASSUME NEW d, Sound(2, d), NEW e, e = Downgrade0002(d), Fits(1, e)
    PROVE  Sound(1, e) /\ Kept(d, 1, e)
<1>1. WellFormed(d) /\ Named(2, d) /\ Fits(2, d) /\ \A x \in d.reservation : Known(2, x)
  BY DEF Sound
<1>2. /\ e = [version |-> e.version, object |-> e.object, described |-> e.described,
              table |-> e.table, content |-> e.content, reservation |-> e.reservation]
      /\ e.version = d.version /\ e.object = d.object /\ e.described = d.described
      /\ e.content = d.content /\ e.table = [d.table EXCEPT !["WORKFLOW_TRANSITION"] = {}]
      /\ e.reservation = {Downgraded(row) : row \in d.reservation}
  BY <1>1 DEF Downgrade0002, WellFormed, Downgraded
<1>3. \A row \in d.reservation : row \in Row
  BY <1>1 DEF WellFormed
<1>4. /\ e.table \in [Operation -> SUBSET Key]
      /\ \A t \in Operation : e.table[t] = IF t = "WORKFLOW_TRANSITION" THEN {} ELSE d.table[t]
  BY <1>1, <1>2 DEF WellFormed
<1>5. WellFormed(e)
  <2>1. e.reservation \subseteq Row
    BY <1>2, <1>3, RelabelLemma
  <2>2. e.content \subseteq e.table["PRODUCER_EXECUTION"]
    BY <1>1, <1>2, <1>4, SinceLemma DEF WellFormed
  <2> QED BY <1>1, <1>2, <1>4, <2>1, <2>2 DEF WellFormed
<1>6. Named(1, e)
  <2> SUFFICES ASSUME NEW t \in Operation, NEW k \in e.table[t]
               PROVE  Since[t] <= 1 /\ \E row \in e.reservation : row.key = k /\ row.names = t
    BY DEF Named
  <2>1. k \in d.table[t] /\ t # "WORKFLOW_TRANSITION"
    BY <1>4
  <2>2. Since[t] <= 2 /\ \E row \in d.reservation : row.key = k /\ row.names = t
    BY <1>1, <2>1 DEF Named
  <2>3. PICK row \in d.reservation : row.key = k /\ row.names = t
    BY <2>2
  <2>4. Downgraded(row) \in e.reservation /\ Downgraded(row).key = k /\ Downgraded(row).names = t
    BY <1>2, <1>3, <2>1, <2>3, RelabelLemma
  <2> QED BY <2>1, <2>2, <2>4, SinceLemma
<1>7. ASSUME NEW x \in d.reservation
      PROVE  /\ x.status = "COMMITTED" /\ x.names = x.type
             /\ x.type \in {"APPROVED_STATE_COMMIT", "WORKFLOW_TRANSITION"}
  <2>1. RowFits(2, x) /\ x \in Row
    BY <1>1, <1>3 DEF Fits
  <2>2. RowFits(1, Downgraded(x))
    BY <1>2 DEF Fits
  <2>3. x.status = "COMMITTED"
    BY <1>3, <2>2, RelabelLemma DEF RowFits
  <2>4. x.names = x.type /\ x.type # Null /\ Since[x.type] <= 2 /\ x.type \in Operation
    BY <2>1, <2>3 DEF RowFits, Row
  <2> QED BY <2>3, <2>4, SinceLemma
<1>8. \A row \in e.reservation : Known(1, row)
  <2> SUFFICES ASSUME NEW x \in d.reservation PROVE Known(1, Downgraded(x))
    BY <1>2
  <2> QED BY <1>3, <1>7, RelabelLemma DEF Known
<1>9. Sound(1, e)
  BY <1>5, <1>6, <1>8 DEF Sound
<1>10. ASSUME NEW k \in Key
       PROVE  Cardinality({row \in e.reservation : row.key = k})
               = Cardinality({row \in d.reservation : row.key = k})
  <2> DEFINE A == {row \in e.reservation : row.key = k}
             B == {row \in d.reservation : row.key = k}
  <2>1. \A x, y \in A : x = y
    BY DEF Fits, KeyedOnce
  <2>2. \A x \in B : Downgraded(x) \in A
    BY <1>2, <1>3, RelabelLemma
  <2>3. ASSUME NEW a \in A PROVE \E x \in B : a = Downgraded(x)
    <3>1. PICK x \in d.reservation : a = Downgraded(x)
      BY <1>2
    <3> QED BY <1>3, <3>1, RelabelLemma
  <2>4. ASSUME NEW x \in B, NEW y \in B PROVE x = y
    <3>1. Downgraded(x).names = Downgraded(y).names
      BY <2>1, <2>2
    <3>2. x.type = y.type
      BY <1>3, <1>7, <3>1, RelabelLemma, SinceLemma
    <3> QED BY <1>1, <3>2 DEF Fits, KeyedOnce
  <2>5. A = {} <=> B = {}
    BY <2>2, <2>3
  <2> HIDE DEF A, B
  <2>6. Cardinality(A) = Cardinality(B)
    BY <2>1, <2>4, <2>5, AtMostOneLemma
  <2> QED BY <2>6 DEF A, B
<1>11. /\ \A t \in Operation \ {"WORKFLOW_TRANSITION"} : e.table[t] = d.table[t]
       /\ e.table["APPROVED_STATE_COMMIT"] = d.table["APPROVED_STATE_COMMIT"]
  BY <1>4, SinceLemma
<1>12. \A k \in d.table["APPROVED_STATE_COMMIT"] :
          \E row \in e.reservation :
             /\ row.key = k /\ row.names = "APPROVED_STATE_COMMIT"
             /\ row.type = IF 1 = 1 THEN Null ELSE "APPROVED_STATE_COMMIT"
  BY <1>9, <1>11, ApprovalLemma
<1> QED BY <1>2, <1>9, <1>10, <1>11, <1>12 DEF Kept

\* Each revision, up or down, from whatever its backfill has seen.
LEMMA ChangedLemma ==
    ASSUME NEW r \in 0..4, NEW d, Sound(r, d), NEW to \in 0..4, to = r + 1 \/ to = r - 1, NEW seen,
           NEW e, e = Changed(r, to, d, seen), Fits(to, e)
    PROVE  /\ Sound(to, e)
           /\ to # 0 => Kept(d, to, e)
           /\ r >= 2 /\ to >= 2 => e.reservation = d.reservation
           /\ r = 0 => e = Empty
<1>1. CASE to = 1 /\ r = 0
  BY <1>1, Upgrade0001Lemma DEF Changed
<1>2. CASE to = 2 /\ r = 1
  BY <1>2, Upgrade0002Lemma DEF Changed
<1>3. CASE to = 3 /\ r = 2
  BY <1>3, Upgrade0003Lemma DEF Changed
<1>4. CASE to = 4 /\ r = 3
  <2>1. e = Upgrade0004(d)
    BY <1>4 DEF Changed
  <2>2. r \in 3..4 /\ to \in 3..4 /\ (r = 3 \/ to = 3)
    BY <1>4
  <2> QED BY <1>4, <2>1, <2>2, Revision0004Lemma
<1>5. CASE to = 3 /\ r = 4
  <2>1. e = Downgrade0004(d)
    BY <1>5 DEF Changed
  <2>2. r \in 3..4 /\ to \in 3..4 /\ (r = 3 \/ to = 3)
    BY <1>5
  <2> QED BY <1>5, <2>1, <2>2, Revision0004Lemma
<1>6. CASE to = 2 /\ r = 3
  BY <1>6, Downgrade0003Lemma DEF Changed
<1>7. CASE to = 1 /\ r = 2
  BY <1>7, Downgrade0002Lemma DEF Changed
<1>8. CASE to = 0 /\ r = 1
  BY <1>8, EmptyLemma DEF Changed, Downgrade0001
<1> QED BY <1>1, <1>2, <1>3, <1>4, <1>5, <1>6, <1>7, <1>8

\* What two revisions have kept, one after the other.
LEMMA KeptTransitive ==
    ASSUME NEW d, NEW e, NEW f, NEW q, NEW r, Kept(d, q, e), Kept(e, r, f)
    PROVE  Kept(d, r, f)
<1>1. e.table["APPROVED_STATE_COMMIT"] = d.table["APPROVED_STATE_COMMIT"]
  BY SinceLemma DEF Kept
<1> QED BY <1>1 DEF Kept

-------------------------------------------------------------------------------
\* The commands of Alembic.

\* A command on its way: the rows are sound at the revision it has come to, and what it has lost
\* so far is nothing.
Course(to, s) ==
    /\ s = [how |-> s.how, at |-> s.at, data |-> s.data]
    /\ s.how \in {"done", "refused", "failed"}
    /\ s.at \in 0..4
    /\ (revision <= s.at /\ s.at <= to) \/ (to <= s.at /\ s.at <= revision)
    /\ Sound(s.at, s.data)
    /\ s.at = revision => s.data = data
    /\ s.at # revision /\ s.at # 0 => Kept(data, s.at, s.data)

\* Step, with what it computes made rigid.
Tried(s, to, r, e, refuses, fits) ==
    IF s.how # "done" \/ s.at = to THEN s
    ELSE IF refuses THEN [s EXCEPT !.how = "refused"]
    ELSE IF ~fits THEN [s EXCEPT !.how = "failed"]
    ELSE [how |-> "done", at |-> r, data |-> e]

\* What Step does, in two cases.
LEMMA StepCases ==
    ASSUME NEW to \in 0..4, NEW s, s = [how |-> s.how, at |-> s.at, data |-> s.data], s.at \in 0..4,
           NEW seen, NEW t, t = Step(s, to, seen),
           NEW r, r = NextRevision(s.at, to),
           NEW e, e = Changed(s.at, r, s.data, seen)
    PROVE  \/ /\ t = [how |-> t.how, at |-> t.at, data |-> t.data]
              /\ t.at = s.at /\ t.data = s.data
              /\ \/ t.how = s.how
                 \/ t.how = "refused"
                 \/ /\ t.how = "failed" /\ s.how = "done" /\ s.at # to
                    /\ ~Refuses(s.at, r, s.data, seen) /\ ~Fits(r, e)
           \/ /\ t = [how |-> t.how, at |-> t.at, data |-> t.data]
              /\ t.how = "done" /\ t.at = r /\ t.data = e
              /\ Fits(r, e) /\ s.at # to
<1>1. t = Tried(s, to, r, e, Refuses(s.at, r, s.data, seen), Fits(r, e))
  <2>1. Step(s, to, seen) = Tried(s, to, NextRevision(s.at, to), Changed(s.at, NextRevision(s.at, to), s.data, seen),
                                  Refuses(s.at, NextRevision(s.at, to), s.data, seen),
                                  Fits(NextRevision(s.at, to), Changed(s.at, NextRevision(s.at, to), s.data, seen)))
    BY DEF Step, Tried
  <2> QED BY <2>1
<1>2. CASE s.how # "done" \/ s.at = to
  BY <1>1, <1>2 DEF Tried
<1>3. CASE s.how = "done" /\ s.at # to /\ Refuses(s.at, r, s.data, seen)
  <2>1. t = [s EXCEPT !.how = "refused"]
    BY <1>1, <1>3 DEF Tried
  <2> QED BY <2>1
<1>4. CASE s.how = "done" /\ s.at # to /\ ~Refuses(s.at, r, s.data, seen) /\ ~Fits(r, e)
  <2>1. t = [s EXCEPT !.how = "failed"]
    BY <1>1, <1>4 DEF Tried
  <2>2. t = [how |-> t.how, at |-> t.at, data |-> t.data] /\ t.at = s.at /\ t.data = s.data
        /\ t.how = "failed"
    BY <2>1
  <2> QED BY <1>4, <2>2
<1>5. CASE s.how = "done" /\ s.at # to /\ ~Refuses(s.at, r, s.data, seen) /\ Fits(r, e)
  <2>1. t = [how |-> "done", at |-> r, data |-> e]
    BY <1>1, <1>5 DEF Tried
  <2> QED BY <1>5, <2>1
<1> QED BY <1>2, <1>3, <1>4, <1>5

LEMMA StepCourse ==
    ASSUME IndInv, NEW to \in 0..4, NEW s, Course(to, s), NEW seen, NEW t, t = Step(s, to, seen)
    PROVE  Course(to, t)
<1>1. /\ s = [how |-> s.how, at |-> s.at, data |-> s.data] /\ s.at \in 0..4 /\ revision \in 0..4
      /\ s.how \in {"done", "refused", "failed"}
      /\ (revision <= s.at /\ s.at <= to) \/ (to <= s.at /\ s.at <= revision)
  BY DEF Course, IndInv
<1>2. PICK r : r = NextRevision(s.at, to)
  OBVIOUS
<1>3. PICK e : e = Changed(s.at, r, s.data, seen)
  OBVIOUS
<1>4. CASE /\ t = [how |-> t.how, at |-> t.at, data |-> t.data] /\ t.at = s.at /\ t.data = s.data
           /\ t.how \in {s.how, "refused", "failed"}
  BY <1>1, <1>4 DEF Course
<1>5. CASE /\ t = [how |-> t.how, at |-> t.at, data |-> t.data]
           /\ t.how = "done" /\ t.at = r /\ t.data = e /\ Fits(r, e) /\ s.at # to
  <2>1. /\ r \in 0..4 /\ (r = s.at + 1 \/ r = s.at - 1) /\ r # revision
        /\ (revision <= r /\ r <= to) \/ (to <= r /\ r <= revision)
    BY <1>1, <1>2, <1>5 DEF NextRevision
  <2>2. Sound(s.at, s.data)
    BY DEF Course
  <2>3. Sound(r, e) /\ (r # 0 => Kept(s.data, r, e))
    BY <1>1, <1>3, <1>5, <2>1, <2>2, ChangedLemma
  <2>4. ASSUME r # 0 PROVE Kept(data, r, e)
    <3>1. CASE s.at = revision
      BY <2>3, <2>4, <3>1 DEF Course
    <3>2. CASE s.at # revision
      <4>1. s.at # 0
        BY <1>1, <1>5, <3>2
      <4>2. Kept(data, s.at, s.data)
        BY <3>2, <4>1 DEF Course
      <4> QED BY <2>3, <2>4, <4>2, KeptTransitive
    <3> QED BY <3>1, <3>2
  <2> QED BY <1>5, <2>1, <2>3, <2>4 DEF Course
<1> QED BY <1>1, <1>2, <1>3, <1>4, <1>5, StepCases

\* Where a command is when it begins.
LEMMA BeginLemma ==
    ASSUME IndInv, NEW to \in 0..4, NEW s, s = [how |-> "done", at |-> revision, data |-> data]
    PROVE  Course(to, s)
<1>1. /\ s = [how |-> s.how, at |-> s.at, data |-> s.data]
      /\ s.how = "done" /\ s.at = revision /\ s.data = data
  OBVIOUS
<1> QED BY <1>1 DEF IndInv, Course

LEMMA ExecutedCourse ==
    ASSUME IndInv, NEW to \in 0..4, NEW seen
    PROVE  Course(to, Executed(to, seen))
<1>1. PICK s : s = [how |-> "done", at |-> revision, data |-> data]
  OBVIOUS
<1>2. PICK first : first = Step(s, to, seen)
  OBVIOUS
<1>3. PICK second : second = Step(first, to, first.data)
  OBVIOUS
<1>4. PICK third : third = Step(second, to, second.data)
  OBVIOUS
<1>5. PICK end : end = Step(third, to, third.data)
  OBVIOUS
<1>6. Executed(to, seen) = end
  BY <1>1, <1>2, <1>3, <1>4, <1>5 DEF Executed
<1>7. Course(to, first)
  BY <1>1, <1>2, BeginLemma, StepCourse
<1>8. Course(to, second)
  BY <1>3, <1>7, StepCourse
<1>9. Course(to, third)
  BY <1>4, <1>8, StepCourse
<1>10. Course(to, end)
  BY <1>5, <1>9, StepCourse
<1> QED BY <1>6, <1>10

\* The end of a command.
LEMMA FinishLemma ==
    ASSUME IndInv, Finish
    PROVE  \E end : /\ end = Executed(command.to, command.seen) /\ Course(command.to, end)
                    /\ last' = end.how /\ command' = Null /\ writes' = writes /\ commands' = commands
                    /\ \/ end.how = "done" /\ revision' = end.at /\ data' = end.data
                       \/ end.how # "done" /\ revision' = revision /\ data' = data
<1>1. PICK end : end = Executed(command.to, command.seen)
  OBVIOUS
<1>2. Course(command.to, end)
  BY <1>1, ExecutedCourse DEF Finish, IndInv
<1> QED BY <1>1, <1>2 DEF Finish, Ends

LEMMA AlembicStep ==
    ASSUME IndInv, Alembic
    PROVE  IndInv'
<1>1. ASSUME NEW to \in 0..4, Start(to) PROVE IndInv'
  <2>1. /\ revision' = revision /\ data' = data /\ last' = last /\ writes' = writes
        /\ command' = [to |-> to, seen |-> data] /\ to # revision
        /\ commands < MaxCommands /\ commands' = commands + 1
    BY <1>1 DEF Start
  <2>2. commands' \in 0..MaxCommands
    BY <2>1, MigrationsAssumption DEF IndInv
  <2>3. command'.to = to
    BY <2>1
  <2> QED BY <2>1, <2>2, <2>3 DEF IndInv
<1>2. CASE Finish
  <2>1. PICK end : /\ Course(command.to, end)
                   /\ last' = end.how /\ command' = Null /\ writes' = writes /\ commands' = commands
                   /\ \/ end.how = "done" /\ revision' = end.at /\ data' = end.data
                      \/ end.how # "done" /\ revision' = revision /\ data' = data
    BY <1>2, FinishLemma
  <2>2. Sound(end.at, end.data) /\ end.at \in 0..4 /\ end.how \in {"done", "refused", "failed"}
    BY <2>1 DEF Course
  <2>3. Sound(revision', data') /\ revision' \in 0..4
    BY <2>1, <2>2 DEF IndInv
  <2> QED BY <2>1, <2>2, <2>3 DEF IndInv
<1>3. CASE MeetOrphans \/ Interrupt
  <2>1. /\ revision' = revision /\ data' = data /\ last' \in {"refused", "interrupted"}
        /\ command' = Null /\ writes' = writes /\ commands' = commands
    BY <1>3 DEF MeetOrphans, Interrupt, Ends
  <2> QED BY <2>1 DEF IndInv
<1> QED BY <1>1, <1>2, <1>3 DEF Alembic

LEMMA Invariance == Spec => []IndInv
<1>1. IndInv /\ [Next]_vars => IndInv'
  <2> SUFFICES ASSUME IndInv, [Next]_vars PROVE IndInv'
    OBVIOUS
  <2>1. CASE UNCHANGED vars
    BY <2>1 DEF vars, IndInv
  <2> QED BY <2>1, ProgramStep, AlembicStep DEF Next
<1> QED BY <1>1, InitInv, PTL DEF Spec

\* Whatever revisions are executed, over whatever rows and in whatever order, the rows fit the
\* constraints of the revision the database is at, and no table or column of a later one is there.
THEOREM MigrationTypes == Spec => []TypeOK
BY Invariance, TypesFollow, PTL

\* A command that is done, to any revision but the empty one, has lost no reservation, version,
\* approval, package, run or content, although its guard may have counted before some of them were
\* committed: the constraints it creates last find what the guard has missed.
THEOREM MigrationLosesNothing == Spec => NothingLost
<1> DEFINE Kept1 ==
      revision' # revision /\ revision' # 0 =>
         /\ data'.version = data.version
         /\ data'.content = data.content
         /\ \A t \in Operation \ {"WORKFLOW_TRANSITION"} : data'.table[t] = data.table[t]
         /\ \A k \in Key : Cardinality({row \in data'.reservation : row.key = k})
                            = Cardinality({row \in data.reservation : row.key = k})
         /\ \A k \in data.table["APPROVED_STATE_COMMIT"] :
               \E row \in data'.reservation :
                  /\ row.key = k /\ row.names = "APPROVED_STATE_COMMIT"
                  /\ row.type = IF revision' = 1 THEN Null ELSE "APPROVED_STATE_COMMIT"
<1>1. ASSUME IndInv, [Next]_vars PROVE [Kept1]_vars
  <2> SUFFICES ASSUME Next, revision' # revision, revision' # 0 PROVE Kept(data, revision', data')
    BY <1>1 DEF Kept
  <2>1. Finish
    <3>1. ~Program
      BY DEF Program, Publish, Commit, Reject, InsertVersion, Register, Describe, Write
    <3> QED BY <3>1 DEF Next, Alembic, Start, MeetOrphans, Interrupt
  <2>2. PICK end : Course(command.to, end) /\ revision' = end.at /\ data' = end.data
    BY <1>1, <2>1, FinishLemma
  <2> QED BY <2>2 DEF Course
<1>2. IndInv /\ [Next]_vars => [Kept1]_vars
  BY <1>1
<1> QED BY <1>2, Invariance, PTL DEF Spec, NothingLost

-------------------------------------------------------------------------------
\* The guards speak first.

\* The rows that no guard asks for and that the constraints of revision to do not let in: a
\* rejected transition on the way down, what a downgrade made of a transition on the way up.
Trap(r, to, rows) ==
    \E row \in rows :
        \/ r = 2 /\ to = 1 /\ row.type = "WORKFLOW_TRANSITION" /\ row.status = "REJECTED"
        \/ r = 1 /\ to = 2 /\ row.names = Null

\* Upgrade of 0002, if each row names an approval.
LEMMA Guard0002UpLemma ==
    ASSUME NEW d, Sound(1, d), NEW e, e = Upgrade0002(d), \A row \in d.reservation : row.names # Null
    PROVE  Fits(2, e)
<1>1. WellFormed(d) /\ Fits(1, d) /\ \A x \in d.reservation : Known(1, x) /\ x \in Row
  BY DEF Sound, WellFormed
<1>2. e.reservation = {Upgraded(row) : row \in d.reservation}
  BY <1>1 DEF Upgrade0002, WellFormed, Upgraded
<1>3. ASSUME NEW x \in d.reservation PROVE RowFits(2, Upgraded(x))
  <2>1. x.status = "COMMITTED" /\ x.reason = Null /\ x.names = "APPROVED_STATE_COMMIT"
    BY <1>1 DEF Fits, RowFits, Known
  <2>2. /\ Upgraded(x).type = "APPROVED_STATE_COMMIT" /\ Upgraded(x).status = "COMMITTED"
        /\ Upgraded(x).reason = Null /\ Upgraded(x).names = "APPROVED_STATE_COMMIT"
    BY <1>1, <2>1, RelabelLemma
  <2>3. Since["APPROVED_STATE_COMMIT"] = 1 /\ "APPROVED_STATE_COMMIT" # Null
    BY SinceLemma
  <2> QED BY <2>2, <2>3 DEF RowFits
<1>4. KeyedOnce(2, e.reservation)
  <2> SUFFICES ASSUME NEW x \in d.reservation, NEW y \in d.reservation,
                      Upgraded(x).key = Upgraded(y).key
               PROVE  Upgraded(x) = Upgraded(y)
    BY <1>2 DEF KeyedOnce
  <2>1. x.key = y.key
    BY <1>1, RelabelLemma
  <2>2. x = y
    BY <1>1, <2>1 DEF Fits, KeyedOnce
  <2> QED BY <2>2
<1> QED BY <1>2, <1>3, <1>4 DEF Fits

\* Downgrade of 0002, if no key is used twice and no row is a rejection.
LEMMA Guard0002DownLemma ==
    ASSUME NEW d, Sound(2, d), NEW e, e = Downgrade0002(d), ~Guard0002Down(d),
           \A row \in d.reservation : row.type = "WORKFLOW_TRANSITION" => row.status # "REJECTED"
    PROVE  Fits(1, e)
<1>1. WellFormed(d) /\ Fits(2, d) /\ \A x \in d.reservation : x \in Row
  BY DEF Sound, WellFormed
<1>2. e.reservation = {Downgraded(row) : row \in d.reservation}
  BY <1>1 DEF Downgrade0002, WellFormed, Downgraded
<1>3. ASSUME NEW x \in d.reservation PROVE RowFits(1, Downgraded(x))
  <2>1. RowFits(2, x) /\ x.type \in Operation \union {Null}
    BY <1>1 DEF Fits, Row
  <2>2. x.type \in {"APPROVED_STATE_COMMIT", "WORKFLOW_TRANSITION"}
    BY <2>1, SinceLemma DEF RowFits
  <2>3. x.status = "COMMITTED"
    BY <2>1, <2>2 DEF RowFits
  <2> QED BY <1>1, <2>3, RelabelLemma DEF RowFits
<1>4. KeyedOnce(1, e.reservation)
  <2> SUFFICES ASSUME NEW x \in d.reservation, NEW y \in d.reservation,
                      Downgraded(x).key = Downgraded(y).key
               PROVE  Downgraded(x) = Downgraded(y)
    BY <1>2 DEF KeyedOnce
  <2>1. x.key = y.key
    BY <1>1, RelabelLemma
  <2>2. x.type = y.type
    BY <2>1 DEF Guard0002Down
  <2>3. x = y
    BY <1>1, <2>1, <2>2 DEF Fits, KeyedOnce
  <2> QED BY <2>3
<1> QED BY <1>2, <1>3, <1>4 DEF Fits

\* Upgrade of 0003, when the backfill has seen all the versions.
LEMMA Guard0003UpLemma ==
    ASSUME NEW d, Sound(2, d), NEW e, e = Upgrade0003(d, d)
    PROVE  Fits(3, e)
<1>1. WellFormed(d) /\ Fits(2, d)
  BY DEF Sound
<1>2. /\ e.version = d.version /\ e.reservation = d.reservation
      /\ DOMAIN e.object = {ObjectOf[v] : v \in d.version}
  BY <1>1 DEF Upgrade0003, WellFormed
<1>3. AllRegistered(e)
  BY <1>2 DEF AllRegistered
<1>4. ASSUME NEW row \in d.reservation PROVE RowFits(3, row)
  <2>1. RowFits(2, row) /\ row \in Row
    BY <1>1 DEF Fits, WellFormed
  <2> QED BY <2>1, SinceLemma DEF RowFits, Row
<1> QED BY <1>1, <1>2, <1>3, <1>4 DEF Fits, KeyedOnce

\* Upgrade of 0004, if no two versions of an object have one number.
LEMMA Guard0004UpLemma ==
    ASSUME NEW d, Sound(3, d), NEW e, e = Upgrade0004(d), ~Guard0004Up(d)
    PROVE  Fits(4, e)
<1>1. WellFormed(d) /\ Fits(3, d)
  BY DEF Sound
<1>2. e.version = d.version /\ e.reservation = d.reservation /\ e.object = d.object
  BY <1>1 DEF Upgrade0004, WellFormed
<1>3. ASSUME NEW row \in d.reservation PROVE RowFits(4, row)
  <2>1. RowFits(3, row) /\ row \in Row
    BY <1>1 DEF Fits, WellFormed
  <2> QED BY <2>1, SinceLemma DEF RowFits, Row
<1> QED BY <1>1, <1>2, <1>3 DEF Fits, KeyedOnce, AllRegistered, Guard0004Up

\* Downgrades of 0004 and 0003, if there is no row of the operation that goes: the guard must count
\* the rejections, since the reason of one is of the revision of its operation.
LEMMA GuardDownLemma ==
    ASSUME NEW r \in 3..4, NEW d, Sound(r, d), NEW e, NEW t \in Operation, Since[t] = r,
           OfType(d, t) = {}, e.version = d.version, e.reservation = d.reservation,
           r = 4 => e.object = d.object
    PROVE  Fits(r - 1, e)
<1>1. WellFormed(d) /\ Fits(r, d) /\ \A x \in d.reservation : Known(r, x)
  BY DEF Sound
<1>2. ASSUME NEW row \in d.reservation PROVE RowFits(r - 1, row)
  <2>1. RowFits(r, row) /\ Known(r, row) /\ row \in Row /\ row.type # t
    BY <1>1 DEF Fits, WellFormed, OfType
  <2>2. row.type \in Operation /\ Since[row.type] <= r - 1
    BY <2>1, SinceLemma DEF RowFits, Row
  <2>3. row.reason # Null => ReasonSince[row.reason] <= r - 1
    BY <2>1, <2>2 DEF RowFits, Known
  <2> QED BY <2>1, <2>2, <2>3 DEF RowFits
<1>3. r - 1 >= 3 => AllRegistered(e)
  BY <1>1 DEF Fits, AllRegistered
<1>4. KeyedOnce(r - 1, e.reservation)
  BY <1>1 DEF Fits, KeyedOnce
<1> QED BY <1>2, <1>3, <1>4 DEF Fits

\* A revision that its guard, or the absence of one, lets through fits, but for a trap.
LEMMA GuardLemma ==
    ASSUME NEW r \in 0..4, NEW d, Sound(r, d), NEW to \in 0..4, to = r + 1 \/ to = r - 1,
           NEW e, e = Changed(r, to, d, d), ~Refuses(r, to, d, d), ~Trap(r, to, d.reservation)
    PROVE  Fits(to, e)
<1>1. CASE to = 1 /\ r = 0
  <2>1. e = Empty
    BY <1>1 DEF Changed, Upgrade0001
  <2> QED BY <2>1, EmptyLemma DEF Sound
<1>2. CASE to = 2 /\ r = 1
  <2>1. e = Upgrade0002(d)
    BY <1>2 DEF Changed
  <2>2. \A row \in d.reservation : row.names # Null
    BY <1>2 DEF Trap
  <2> QED BY <1>2, <2>1, <2>2, Guard0002UpLemma
<1>3. CASE to = 3 /\ r = 2
  BY <1>3, Guard0003UpLemma DEF Changed
<1>4. CASE to = 4 /\ r = 3
  <2>1. e = Upgrade0004(d) /\ ~Guard0004Up(d)
    BY <1>4 DEF Changed, Refuses
  <2> QED BY <1>4, <2>1, Guard0004UpLemma
<1>5. CASE to = 3 /\ r = 4
  <2>1. e = Downgrade0004(d) /\ OfType(d, "PRODUCER_EXECUTION") = {}
    BY <1>5 DEF Changed, Refuses, Guard0004Down
  <2>2. e.version = d.version /\ e.reservation = d.reservation /\ e.object = d.object
    BY <2>1 DEF Downgrade0004, Sound, WellFormed
  <2>3. "PRODUCER_EXECUTION" \in Operation /\ Since["PRODUCER_EXECUTION"] = r /\ r \in 3..4
    BY <1>5, SinceLemma
  <2>4. Fits(r - 1, e)
    BY <2>1, <2>2, <2>3, GuardDownLemma
  <2> QED BY <1>5, <2>4
<1>6. CASE to = 2 /\ r = 3
  <2>1. e = Downgrade0003(d) /\ OfType(d, "CONTEXT_ASSEMBLY") = {}
    BY <1>6 DEF Changed, Refuses, Guard0003Down
  <2>2. e.version = d.version /\ e.reservation = d.reservation
    BY <2>1 DEF Downgrade0003, Sound, WellFormed
  <2>3. "CONTEXT_ASSEMBLY" \in Operation /\ Since["CONTEXT_ASSEMBLY"] = r /\ r \in 3..4 /\ r # 4
    BY <1>6, SinceLemma
  <2>4. Fits(r - 1, e)
    BY <2>1, <2>2, <2>3, GuardDownLemma
  <2> QED BY <1>6, <2>4
<1>7. CASE to = 1 /\ r = 2
  <2>1. e = Downgrade0002(d) /\ ~Guard0002Down(d)
    BY <1>7 DEF Changed, Refuses
  <2>2. \A row \in d.reservation : row.type = "WORKFLOW_TRANSITION" => row.status # "REJECTED"
    BY <1>7 DEF Trap
  <2> QED BY <1>7, <2>1, <2>2, Guard0002DownLemma
<1>8. CASE to = 0 /\ r = 1
  BY <1>8 DEF Fits
<1> QED BY <1>1, <1>2, <1>3, <1>4, <1>5, <1>6, <1>7, <1>8

\* The traps of a command: those of the property.
Trapped(to) ==
    \E row \in data.reservation :
        IF to < revision
        THEN to <= 1 /\ revision >= 2 /\ row.type = "WORKFLOW_TRANSITION" /\ row.status = "REJECTED"
        ELSE revision = 1 /\ row.names = Null

\* A command on its way over what its guards have read: until it crosses 0002 the reservations are
\* those it began with, and it fails in a trap only.
Diagnosed(to, s) ==
    /\ s.how = "failed" => Trapped(to)
    /\ revision >= 2 /\ s.at >= 2 => s.data.reservation = data.reservation
    /\ revision = 0 /\ s.at <= 1 => s.data.reservation = {}

LEMMA DiagnosedStep ==
    ASSUME IndInv, NEW to \in 0..4, NEW s, Course(to, s), Diagnosed(to, s),
           NEW t, t = Step(s, to, s.data)
    PROVE  Diagnosed(to, t)
<1>1. /\ s = [how |-> s.how, at |-> s.at, data |-> s.data] /\ s.at \in 0..4 /\ revision \in 0..4
      /\ (revision <= s.at /\ s.at <= to) \/ (to <= s.at /\ s.at <= revision)
      /\ Sound(s.at, s.data) /\ (s.at = revision => s.data = data)
  BY DEF Course, IndInv
<1>2. PICK r : r = NextRevision(s.at, to)
  OBVIOUS
<1>3. PICK e : e = Changed(s.at, r, s.data, s.data)
  OBVIOUS
<1>4. ASSUME s.at # to
      PROVE  /\ r \in 0..4 /\ (r = s.at + 1 \/ r = s.at - 1) /\ r # revision
             /\ (revision <= s.at /\ r = s.at + 1 /\ r <= to) \/ (to <= r /\ r = s.at - 1 /\ s.at <= revision)
  BY <1>1, <1>2, <1>4 DEF NextRevision
<1>5. CASE t.at = s.at /\ t.data = s.data /\ (t.how = s.how \/ t.how = "refused")
  BY <1>5 DEF Diagnosed
<1>6. CASE /\ t.at = s.at /\ t.data = s.data /\ t.how = "failed" /\ s.at # to
           /\ ~Refuses(s.at, r, s.data, s.data) /\ ~Fits(r, e)
  <2>1. Trap(s.at, r, s.data.reservation)
    BY <1>1, <1>3, <1>4, <1>6, GuardLemma
  <2>2. PICK row \in s.data.reservation :
            \/ s.at = 2 /\ r = 1 /\ row.type = "WORKFLOW_TRANSITION" /\ row.status = "REJECTED"
            \/ s.at = 1 /\ r = 2 /\ row.names = Null
    BY <2>1 DEF Trap
  <2>3. CASE s.at = 2 /\ r = 1 /\ row.type = "WORKFLOW_TRANSITION" /\ row.status = "REJECTED"
    <3>1. to < revision /\ to <= 1 /\ revision >= 2
      BY <1>1, <1>4, <1>6, <2>3
    <3>2. row \in data.reservation
      BY <2>2, <2>3, <3>1 DEF Diagnosed
    <3> QED BY <1>6, <2>3, <3>1, <3>2 DEF Diagnosed, Trapped
  <2>4. CASE s.at = 1 /\ r = 2 /\ row.names = Null
    <3>1. revision <= 1 /\ ~(to < revision)
      BY <1>1, <1>4, <1>6, <2>4
    <3>2. revision # 0
      BY <2>2, <2>4 DEF Diagnosed
    <3>3. revision = 1 /\ row \in data.reservation
      BY <1>1, <2>2, <2>4, <3>1, <3>2
    <3> QED BY <1>6, <2>4, <3>1, <3>3 DEF Diagnosed, Trapped
  <2> QED BY <2>2, <2>3, <2>4
<1>7. CASE t.how = "done" /\ t.at = r /\ t.data = e /\ Fits(r, e) /\ s.at # to
  <2>1. /\ s.at >= 2 /\ r >= 2 => e.reservation = s.data.reservation
        /\ s.at = 0 => e = Empty
    BY <1>1, <1>3, <1>4, <1>7, ChangedLemma
  <2>2. ASSUME revision >= 2, r >= 2 PROVE e.reservation = data.reservation
    <3>1. s.at >= 2
      BY <1>1, <1>4, <1>7, <2>2
    <3> QED BY <2>1, <2>2, <3>1 DEF Diagnosed
  <2>3. ASSUME revision = 0, r <= 1 PROVE e.reservation = {}
    <3>1. s.at = 0
      BY <1>1, <1>4, <1>7, <2>3
    <3> QED BY <2>1, <3>1 DEF Empty
  <2> QED BY <1>7, <2>2, <2>3 DEF Diagnosed
<1> QED BY <1>1, <1>2, <1>3, <1>5, <1>6, <1>7, StepCases

\* If nobody has written since the guard read.
LEMMA ExecutedDiagnosed ==
    ASSUME IndInv, NEW to \in 0..4
    PROVE  Diagnosed(to, Executed(to, data))
<1>1. PICK s : s = [how |-> "done", at |-> revision, data |-> data]
  OBVIOUS
<1>2. PICK first : first = Step(s, to, data)
  OBVIOUS
<1>3. PICK second : second = Step(first, to, first.data)
  OBVIOUS
<1>4. PICK third : third = Step(second, to, second.data)
  OBVIOUS
<1>5. PICK end : end = Step(third, to, third.data)
  OBVIOUS
<1>6. Executed(to, data) = end
  BY <1>1, <1>2, <1>3, <1>4, <1>5 DEF Executed
<1>7. Course(to, s) /\ s.data = data /\ Diagnosed(to, s)
  <2>1. s.how = "done" /\ s.at = revision /\ s.data = data
    BY <1>1
  <2>2. revision = 0 => data = Empty
    BY DEF IndInv, Sound
  <2> QED BY <1>1, <2>1, <2>2, BeginLemma DEF Diagnosed, Empty
<1>8. Course(to, first) /\ Diagnosed(to, first)
  <2>1. first = Step(s, to, s.data)
    BY <1>2, <1>7
  <2> QED BY <1>7, <2>1, StepCourse, DiagnosedStep
<1>9. Course(to, second) /\ Diagnosed(to, second)
  BY <1>3, <1>8, StepCourse, DiagnosedStep
<1>10. Course(to, third) /\ Diagnosed(to, third)
  BY <1>4, <1>9, StepCourse, DiagnosedStep
<1>11. Course(to, end) /\ Diagnosed(to, end)
  BY <1>5, <1>10, StepCourse, DiagnosedStep
<1> QED BY <1>6, <1>11

\* A command over rows that nobody has written since its guard read them ends in the error of a
\* constraint only if it crosses 0002 with a rejected transition going down, or with what a downgrade
\* made of a transition going up: every other row a constraint would refuse is one a guard counts.
THEOREM MigrationGuardsFirst == Spec => GuardsSpeakFirst
<1> DEFINE Speaks ==
      command # Null /\ command' = Null /\ last' = "failed" =>
         \/ data # command.seen
         \/ \E row \in data.reservation :
               IF command.to < revision
               THEN command.to <= 1 /\ revision >= 2 /\ row.type = "WORKFLOW_TRANSITION" /\ row.status = "REJECTED"
               ELSE revision = 1 /\ row.names = Null
<1>1. ASSUME IndInv, [Next]_vars PROVE [Speaks]_vars
  <2> SUFFICES ASSUME Next, command # Null, command' = Null, last' = "failed", data = command.seen
               PROVE  Trapped(command.to)
    BY <1>1 DEF Trapped
  <2>1. Finish
    <3>1. ~Program
      BY DEF Program, Publish, Commit, Reject, InsertVersion, Register, Describe, Write
    <3> QED BY <3>1 DEF Next, Alembic, Start, MeetOrphans, Interrupt, Ends
  <2>2. PICK end : end = Executed(command.to, command.seen) /\ last' = end.how
    BY <1>1, <2>1, FinishLemma
  <2>3. command.to \in 0..4
    BY <1>1 DEF IndInv
  <2>4. Diagnosed(command.to, end)
    BY <1>1, <2>2, <2>3, ExecutedDiagnosed
  <2> QED BY <2>2, <2>4 DEF Diagnosed
<1>2. IndInv /\ [Next]_vars => [Speaks]_vars
  BY <1>1
<1> QED BY <1>2, Invariance, PTL DEF Spec, GuardsSpeakFirst
================================================================================
