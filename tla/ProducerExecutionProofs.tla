------------------------ MODULE ProducerExecutionProofs ------------------------
(***************************************************************************)
(* Proofs about ProducerExecution, for any number of callers, objects,     *)
(* keys, configurations and crashes.                                       *)
(***************************************************************************)
EXTENDS ProducerExecution, SequenceFacts, FiniteSetTheorems, TLAPS

-------------------------------------------------------------------------------
\* The inductive invariant.

Requests == [key : Key, identity : Identity]
VersionRows == [object : Object, number : Nat \ {0},
                status : {"ELIGIBLE_PENDING", "DRAFT"}, content : Nat]
RunRows == [key : Key, object : Object, version : Nat \ {0},
            status : {"ACTIVE", "SUCCEEDED", "FAILED"}]
Places == {"idle", "preflight", "assemble", "reject", "lockObject", "version",
           "reserve", "commit", "snapshot", "phaseB", "return"}
Answers == {"none", "SUCCEEDED", "FAILED", "PENDING_POLL_TIMEOUT",
            "IDEMPOTENCY_CONFLICT", "INVALID_CONTEXT_PACKAGE", "RuntimeError"}

\* Where a caller holds the row lock of its object, and the reservation of its key.
Locking(p) == pc[p] \in {"version", "reserve", "commit"}
Reserving(p) == pc[p] = "commit"

ObjectAsked(p) == ask[p].identity.object

\* How many of the first i versions are of an object, and whether a run on a version is under way.
Count(i, o) == Cardinality({w \in 1..i : versions[w].object = o})
Active(v) == \E r \in 1..Len(runs) : runs[r].version = v /\ runs[r].status = "ACTIVE"

\* The committed rows name each other.
Rows ==
    /\ \A r \in 1..Len(runs) :
          /\ operation[runs[r].key] # NoOne /\ operation[runs[r].key].run = r
          /\ runs[r].version \in 1..Len(versions)
          /\ versions[runs[r].version].object = runs[r].object
          /\ operation[runs[r].key].hash.object = runs[r].object
          /\ context[runs[r].key] = [object |-> runs[r].object, assembled |-> TRUE]
    /\ \A k \in Key : operation[k] # NoOne =>
          /\ operation[k].run # Rejected =>
                operation[k].run \in 1..Len(runs) /\ runs[operation[k].run].key = k
          /\ context[k] # NoOne /\ context[k].object = operation[k].hash.object
    /\ \A r, s \in 1..Len(runs) :
          runs[r].version = runs[s].version /\ runs[r].status = "ACTIVE" /\ runs[s].status = "ACTIVE"
              => r = s

\* The versions of an object are numbered in the order they are committed, up to how many there are.
Numbers ==
    /\ \A v \in 1..Len(versions) : versions[v].number = Count(v, versions[v].object)
    /\ \A o \in Object :
          \/ Count(Len(versions), o) = 0
          \/ \E v \in 1..Len(versions) :
                versions[v].object = o /\ versions[v].number = Count(Len(versions), o)

\* A key that somebody has reserved is not decided yet; a lock is held by whom the code says.
Locks ==
    /\ \A k \in Key : keyLock[k] # NoOne =>
          operation[k] = NoOne /\ Reserving(keyLock[k]) /\ ask[keyLock[k]].key = k
    /\ \A p \in Proc : Reserving(p) => keyLock[ask[p].key] = p
    /\ \A o \in Object : objectLock[o] # NoOne =>
          Locking(objectLock[o]) /\ ObjectAsked(objectLock[o]) = o
    /\ \A p \in Proc : Locking(p) => objectLock[ObjectAsked(p)] = p

\* The version Phase A has chosen is still to be created, with the next number, or still
\* without a run under way.
Chosen(p) ==
    \/ target[p].id = 0 /\ target[p].number = Count(Len(versions), ObjectAsked(p)) + 1
    \/ /\ target[p].id \in 1..Len(versions) /\ versions[target[p].id].object = ObjectAsked(p)
       /\ ~Active(target[p].id)

\* What one caller may rely on.
CallerInv(p) ==
    /\ pc[p] # "idle" => ask[p] \in Requests
    /\ pc[p] \in {"lockObject", "version", "reserve", "commit"} =>
          context[ask[p].key] = [object |-> ObjectAsked(p), assembled |-> TRUE]
    /\ pc[p] = "reject" => context[ask[p].key] = [object |-> ObjectAsked(p), assembled |-> FALSE]
    /\ pc[p] \in {"reserve", "commit"} => Chosen(p)
    /\ pc[p] \in {"snapshot", "phaseB"} => myRun[p] \in 1..Len(runs)
    /\ pc[p] # "return" => result[p] = "none"
    /\ result[p] # "RuntimeError"
    /\ round[p] <= 2
    /\ pc[p] \in {"assemble", "reject", "lockObject", "version", "reserve", "commit"} => round[p] = 1
    /\ pc[p] = "preflight" => round[p] = 1 \/ (round[p] = 2 /\ operation[ask[p].key] # NoOne)
    /\ pc[p] \in {"assemble", "phaseB"} => ~inTransaction[p]

IndInv == TypeOK /\ Rows /\ Numbers /\ Locks /\ \A p \in Proc : CallerInv(p)

-------------------------------------------------------------------------------
\* Types.

RowTypes ==
    /\ versions \in Seq(VersionRows) /\ runs \in Seq(RunRows)
    /\ context \in [Key -> [object : Object, assembled : BOOLEAN] \union {NoOne}]
    /\ operation \in [Key -> [hash : Identity, run : Nat] \union {NoOne}]

LockTypes ==
    /\ objectLock \in [Object -> Proc \union {NoOne}]
    /\ keyLock \in [Key -> Proc \union {NoOne}]

LocalTypes ==
    /\ pc \in [Proc -> Places] /\ ask \in [Proc -> Requests \union {NoOne}]
    /\ round \in [Proc -> 0..MaxOwnershipRetries]
    /\ target \in [Proc -> [id : Nat, number : Nat]]
    /\ myRun \in [Proc -> Nat] /\ inTransaction \in [Proc -> BOOLEAN]
    /\ result \in [Proc -> Answers]

LEMMA TypesLemma == TypeOK <=> RowTypes /\ LockTypes /\ LocalTypes /\ crashes \in 0..MaxCrashes
BY DEF TypeOK, RowTypes, LockTypes, LocalTypes, VersionRows, RunRows, Places, Requests, Answers

LEMMA TypesStep ==
    ASSUME RowTypes', LockTypes', LocalTypes', crashes' \in 0..MaxCrashes
    PROVE  TypeOK'
BY DEF TypeOK, RowTypes, LockTypes, LocalTypes, VersionRows, RunRows, Places, Requests, Answers

\* The rows of the two tables, by their ids.
LEMMA TablesLemma ==
    ASSUME RowTypes
    PROVE  /\ Len(versions) \in Nat /\ DOMAIN versions = 1..Len(versions)
           /\ \A v \in 1..Len(versions) : versions[v] \in VersionRows
           /\ Len(runs) \in Nat /\ DOMAIN runs = 1..Len(runs)
           /\ \A r \in 1..Len(runs) : runs[r] \in RunRows
BY RowsOf DEF RowTypes

\* What a caller asks for, once it does.
LEMMA AskedLemma ==
    ASSUME IndInv, NEW p \in Proc, pc[p] # "idle"
    PROVE  /\ ask[p] \in Requests /\ ask[p].key \in Key /\ ask[p].identity \in Identity
           /\ ObjectAsked(p) \in Object
BY ExecutionAssumption DEF IndInv, CallerInv, Requests, ObjectAsked

-------------------------------------------------------------------------------
\* Counting the versions of an object.

LEMMA CountType ==
    ASSUME NEW i \in Nat, NEW o
    PROVE  Count(i, o) \in Nat /\ IsFiniteSet({w \in 1..i : versions[w].object = o})
<1>1. IsFiniteSet(1..i)
  BY FS_Interval
<1>2. IsFiniteSet({w \in 1..i : versions[w].object = o})
  BY <1>1, FS_Subset
<1> QED BY <1>2, FS_CardinalityType DEF Count

\* Nothing is counted of an object that has no version.
LEMMA CountNone ==
    ASSUME NEW i \in Nat, NEW o
    PROVE  Count(i, o) = 0 <=> \A w \in 1..i : versions[w].object # o
<1>1. Count(i, o) = 0 <=> {w \in 1..i : versions[w].object = o} = {}
  BY CountType, FS_EmptySet DEF Count
<1> QED BY <1>1

\* An earlier version is not numbered higher.
LEMMA CountMonotone ==
    ASSUME NEW i \in Nat, NEW v \in 1..i, NEW o
    PROVE  Count(v, o) <= Count(i, o)
<1>1. {w \in 1..v : versions[w].object = o} \subseteq {w \in 1..i : versions[w].object = o}
  OBVIOUS
<1>2. IsFiniteSet({w \in 1..i : versions[w].object = o})
  BY CountType
<1> QED BY <1>1, <1>2, FS_Subset DEF Count

\* The next number of an object is one more than its versions are.
LEMMA NextNumberLemma ==
    ASSUME IndInv, NEW o \in Object
    PROVE  NextVersionNumber(o) = Count(Len(versions), o) + 1
<1>0. PICK n : n = Len(versions)
  OBVIOUS
<1>1. /\ n \in Nat /\ DOMAIN versions = 1..n
      /\ \A v \in 1..n : versions[v].number = Count(v, versions[v].object)
      /\ \/ Count(n, o) = 0
         \/ \E v \in 1..n : versions[v].object = o /\ versions[v].number = Count(n, o)
  BY <1>0, TypesLemma, TablesLemma DEF IndInv, Numbers
<1> DEFINE N == {0} \union {versions[v].number : v \in {w \in DOMAIN versions : versions[w].object = o}}
<1>2. \A v \in 1..n : versions[v].object = o => versions[v].number \in Nat /\ versions[v].number <= Count(n, o)
  <2> SUFFICES ASSUME NEW v \in 1..n, versions[v].object = o
               PROVE  versions[v].number \in Nat /\ versions[v].number <= Count(n, o)
    OBVIOUS
  <2>1. v \in Nat /\ versions[v].number = Count(v, o)
    BY <1>1
  <2> QED BY <1>1, <2>1, CountType, CountMonotone
<1>3. \A x : x \in N <=> x = 0 \/ \E v \in 1..n : versions[v].object = o /\ x = versions[v].number
  BY <1>1
<1> HIDE DEF N
<1>4. Count(n, o) \in Nat /\ Count(n, o) \in N
  BY <1>1, <1>3, CountType
<1>5. \A x \in N : x \in Nat /\ x <= Count(n, o)
  BY <1>2, <1>3, <1>4
<1>6. Max(N) = Count(n, o)
  <2>1. \A x \in N : (\A y \in N : x >= y) => x = Count(n, o)
    BY <1>4, <1>5
  <2> QED BY <1>4, <1>5, <2>1 DEF Max
<1>7. NextVersionNumber(o) = Max(N) + 1
  BY DEF NextVersionNumber, N
<1> QED BY <1>0, <1>6, <1>7

\* A table of versions whose objects and numbers are what they were.
SameVersions ==
    /\ Len(versions') = Len(versions)
    /\ \A v \in 1..Len(versions) :
          versions'[v].object = versions[v].object /\ versions'[v].number = versions[v].number

LEMMA CountSame ==
    ASSUME NEW i \in Nat, NEW o, \A v \in 1..i : versions'[v].object = versions[v].object
    PROVE  Count(i, o)' = Count(i, o)
<1>1. {w \in 1..i : versions'[w].object = o} = {w \in 1..i : versions[w].object = o}
  OBVIOUS
<1> QED BY <1>1 DEF Count

LEMMA NumbersSame ==
    ASSUME IndInv, SameVersions
    PROVE  Numbers'
<1>0. PICK n : n = Len(versions)
  OBVIOUS
<1>1. /\ n \in Nat /\ n = Len(versions')
      /\ \A v \in 1..n : versions'[v].object = versions[v].object
                         /\ versions'[v].number = versions[v].number
  BY <1>0, TypesLemma, TablesLemma DEF IndInv, SameVersions
<1>2. \A i \in 0..n : \A o : Count(i, o)' = Count(i, o)
  BY <1>1, CountSame
<1>3. ASSUME NEW v \in 1..n, NEW o, o = versions'[v].object
      PROVE  versions'[v].number = Count(v, o)'
  <2>1. versions[v].number = Count(v, o)
    BY <1>0, <1>1, <1>3 DEF IndInv, Numbers
  <2> QED BY <1>1, <1>2, <2>1
<1>4. \A v \in 1..n : versions'[v].number = Count(v, versions[v].object)'
  BY <1>3 DEF Count
<1>5. ASSUME NEW o \in Object
      PROVE  \/ Count(n, o)' = 0
             \/ \E v \in 1..n : versions'[v].object = o /\ versions'[v].number = Count(n, o)'
  <2>1. \/ Count(n, o) = 0
        \/ \E v \in 1..n : versions[v].object = o /\ versions[v].number = Count(n, o)
    BY <1>0 DEF IndInv, Numbers
  <2>2. Count(n, o)' = Count(n, o)
    BY <1>1, <1>2
  <2> QED BY <1>1, <2>1, <2>2
<1> QED BY <1>1, <1>4, <1>5 DEF Numbers, Count

-------------------------------------------------------------------------------
\* Nobody has asked for anything yet.
LEMMA InitInv == Init => IndInv
<1> SUFFICES ASSUME Init PROVE IndInv
  OBVIOUS
<1>1. /\ versions = << >> /\ runs = << >>
      /\ context = [k \in Key |-> NoOne] /\ operation = [k \in Key |-> NoOne]
      /\ objectLock = [o \in Object |-> NoOne] /\ keyLock = [k \in Key |-> NoOne]
      /\ pc = [p \in Proc |-> "idle"] /\ ask = [p \in Proc |-> NoOne]
      /\ round = [p \in Proc |-> 0] /\ target = [p \in Proc |-> NoTarget]
      /\ myRun = [p \in Proc |-> 0] /\ inTransaction = [p \in Proc |-> FALSE]
      /\ result = [p \in Proc |-> "none"] /\ crashes = 0
  BY DEF Init
<1>2. Len(versions) = 0 /\ Len(runs) = 0
  BY <1>1
<1>3. TypeOK
  <2>1. RowTypes /\ LockTypes
    BY <1>1, EmptyTable DEF RowTypes, LockTypes
  <2>2. NoTarget \in [id : Nat, number : Nat] /\ 0 \in 0..MaxOwnershipRetries
    BY DEF NoTarget, MaxOwnershipRetries
  <2>3. LocalTypes
    BY <1>1, <2>2 DEF LocalTypes, Places, Answers
  <2>4. crashes \in 0..MaxCrashes
    <3>1. MaxCrashes \in Nat /\ crashes = 0
      BY <1>1, ExecutionAssumption
    <3> QED BY <3>1
  <2> QED BY <2>1, <2>3, <2>4, TypesLemma
<1>4. Rows
  <2>1. 1..Len(runs) = {}
    BY <1>2
  <2>2. \A k \in Key : operation[k] = NoOne
    BY <1>1
  <2> QED BY <2>1, <2>2 DEF Rows
<1>5. Numbers
  <2>1. \A o \in Object : Count(0, o) = 0
    BY CountNone
  <2> QED BY <1>2, <2>1 DEF Numbers
<1>6. Locks
  BY <1>1 DEF Locks, Locking, Reserving
<1>7. ASSUME NEW p \in Proc PROVE CallerInv(p)
  <2>1. pc[p] = "idle" /\ result[p] = "none" /\ round[p] = 0
    BY <1>1
  <2> QED BY <2>1 DEF CallerInv
<1> QED BY <1>3, <1>4, <1>5, <1>6, <1>7 DEF IndInv

-------------------------------------------------------------------------------
\* What a step of one caller leaves to the others.

Same(x) ==
    /\ pc'[x] = pc[x] /\ ask'[x] = ask[x] /\ round'[x] = round[x] /\ target'[x] = target[x]
    /\ myRun'[x] = myRun[x] /\ inTransaction'[x] = inTransaction[x] /\ result'[x] = result[x]

\* Phase A may still rely on what it read of the versions and the runs of an object.
Untouched(o) ==
    /\ Count(Len(versions), o)' = Count(Len(versions), o)
    /\ \A v \in 1..Len(versions) : versions[v].object = o =>
          v \in 1..Len(versions') /\ versions'[v].object = o /\ (Active(v)' => Active(v))

\* Rows are added and what is decided stays decided; whoever has locked an object, unless it
\* is the caller p, may rely on what it read.
RowsGrow(p) ==
    /\ Len(runs) \in Nat /\ Len(runs') \in Nat /\ Len(runs) <= Len(runs')
    /\ \A k \in Key : context[k] # NoOne => context'[k] = context[k]
    /\ \A k \in Key : operation[k] # NoOne => operation'[k] # NoOne
    /\ \A o \in Object : objectLock[o] # NoOne /\ objectLock[o] # p => Untouched(o)

LEMMA ChosenFrame ==
    ASSUME NEW x \in Proc, ask'[x] = ask[x], target'[x] = target[x], Chosen(x),
           NEW o, o = ObjectAsked(x), Untouched(o)
    PROVE  Chosen(x)'
<1>1. PICK t : t = target[x]
  OBVIOUS
<1>2. ObjectAsked(x)' = o
  BY <1>1 DEF ObjectAsked
<1>3. CASE t.id = 0 /\ t.number = Count(Len(versions), o) + 1
  <2>1. t.number = Count(Len(versions), o)' + 1
    BY <1>1, <1>3 DEF Untouched
  <2>2. t.number = Count(Len(versions), ObjectAsked(x))' + 1
    BY <1>2, <2>1 DEF Count
  <2> QED BY <1>1, <1>3, <2>2 DEF Chosen
<1>4. CASE t.id \in 1..Len(versions) /\ versions[t.id].object = o /\ ~Active(t.id)
  <2>1. t.id \in 1..Len(versions') /\ versions'[t.id].object = o /\ ~Active(t.id)'
    BY <1>1, <1>4 DEF Untouched
  <2> QED BY <1>1, <1>2, <2>1 DEF Chosen, Active
<1> QED BY <1>1, <1>3, <1>4 DEF Chosen

LEMMA CallerFrame ==
    ASSUME IndInv, NEW p, NEW x \in Proc, x # p, Same(x), RowsGrow(p)
    PROVE  CallerInv(x)'
<1>1. CallerInv(x)
  BY DEF IndInv
<1>2. /\ pc'[x] = pc[x] /\ ask'[x] = ask[x] /\ round'[x] = round[x] /\ target'[x] = target[x]
      /\ myRun'[x] = myRun[x] /\ inTransaction'[x] = inTransaction[x] /\ result'[x] = result[x]
      /\ ObjectAsked(x)' = ObjectAsked(x)
  BY DEF Same, ObjectAsked
<1>3. pc[x] # "idle" => ask[x] \in Requests /\ ask[x].key \in Key /\ ObjectAsked(x) \in Object
  BY AskedLemma
<1>4. ASSUME NEW b \in BOOLEAN, pc[x] # "idle",
             context[ask[x].key] = [object |-> ObjectAsked(x), assembled |-> b]
      PROVE  context'[ask[x].key] = [object |-> ObjectAsked(x), assembled |-> b]
  <2>1. [object |-> ObjectAsked(x), assembled |-> b] \in [object : Object, assembled : BOOLEAN]
    BY <1>3, <1>4
  <2>2. context[ask[x].key] # NoOne
    BY <1>4, <2>1, ExecutionAssumption
  <2> QED BY <1>3, <1>4, <2>2 DEF RowsGrow
<1>5. pc[x] \in {"lockObject", "version", "reserve", "commit"} =>
          context'[ask[x].key] = [object |-> ObjectAsked(x), assembled |-> TRUE]
  BY <1>1, <1>4 DEF CallerInv
<1>6. pc[x] = "reject" => context'[ask[x].key] = [object |-> ObjectAsked(x), assembled |-> FALSE]
  BY <1>1, <1>4 DEF CallerInv
<1>7. pc[x] \in {"reserve", "commit"} => Chosen(x)'
  <2> SUFFICES ASSUME pc[x] \in {"reserve", "commit"} PROVE Chosen(x)'
    OBVIOUS
  <2>1. PICK o \in Object : o = ObjectAsked(x)
    BY <1>3
  <2>2. objectLock[o] = x
    BY <2>1 DEF IndInv, Locks, Locking
  <2>3. Untouched(o)
    BY <2>2, ExecutionAssumption DEF RowsGrow
  <2> QED BY <1>1, <1>2, <2>1, <2>3, ChosenFrame DEF CallerInv
<1>8. pc[x] \in {"snapshot", "phaseB"} => myRun[x] \in 1..Len(runs')
  <2>1. Len(runs) \in Nat /\ Len(runs') \in Nat /\ Len(runs) <= Len(runs')
    BY DEF RowsGrow
  <2>2. pc[x] \in {"snapshot", "phaseB"} => myRun[x] \in 1..Len(runs)
    BY <1>1 DEF CallerInv
  <2> QED BY <2>1, <2>2
<1>9. pc[x] = "preflight" => round[x] = 1 \/ (round[x] = 2 /\ operation'[ask[x].key] # NoOne)
  BY <1>1, <1>3 DEF CallerInv, RowsGrow
<1>10. /\ ask'[x].key = ask[x].key
       /\ pc'[x] = "preflight" => round'[x] = 1 \/ (round'[x] = 2 /\ operation'[ask'[x].key] # NoOne)
       /\ pc'[x] \in {"snapshot", "phaseB"} => myRun'[x] \in 1..Len(runs')
       /\ pc'[x] = "reject" => context'[ask'[x].key] = [object |-> ObjectAsked(x), assembled |-> FALSE]'
       /\ pc'[x] \in {"lockObject", "version", "reserve", "commit"} =>
              context'[ask'[x].key] = [object |-> ObjectAsked(x), assembled |-> TRUE]'
       /\ Requests' = Requests
  BY <1>2, <1>5, <1>6, <1>8, <1>9 DEF Requests
<1>11. /\ pc'[x] # "idle" => ask'[x] \in Requests
       /\ pc'[x] # "return" => result'[x] = "none"
       /\ result'[x] # "RuntimeError" /\ round'[x] <= 2
       /\ pc'[x] \in {"assemble", "reject", "lockObject", "version", "reserve", "commit"} =>
              round'[x] = 1
       /\ pc'[x] \in {"assemble", "phaseB"} => ~inTransaction'[x]
       /\ pc'[x] \in {"reserve", "commit"} => Chosen(x)'
  BY <1>1, <1>2, <1>7 DEF CallerInv
<1> QED BY <1>10, <1>11 DEF CallerInv

LEMMA CallersLemma ==
    ASSUME IndInv, NEW p \in Proc, \A x \in Proc \ {p} : Same(x), RowsGrow(p), CallerInv(p)'
    PROVE  \A x \in Proc : CallerInv(x)'
BY CallerFrame

\* The rows are what they were.
LEMMA QuietRows ==
    ASSUME IndInv, NEW p, UNCHANGED rows
    PROVE  RowTypes' /\ Rows' /\ Numbers' /\ RowsGrow(p)
<1>1. versions' = versions /\ runs' = runs /\ context' = context /\ operation' = operation
  BY DEF rows
<1>2. /\ RowTypes /\ Len(versions) \in Nat /\ Len(runs) \in Nat
      /\ \A v \in 1..Len(versions) : v \in 1..Len(versions')
  BY <1>1, TypesLemma, TablesLemma DEF IndInv
<1>3. RowTypes' /\ Rows' /\ Numbers'
  <2>1. RowTypes'
    BY <1>1, <1>2 DEF RowTypes
  <2>2. Rows'
    BY <1>1 DEF IndInv, Rows
  <2>3. SameVersions
    BY <1>1 DEF SameVersions
  <2> QED BY <2>1, <2>2, <2>3, NumbersSame
<1>4. ASSUME NEW o PROVE Untouched(o)
  <2>1. Count(Len(versions), o)' = Count(Len(versions), o)
    BY <1>1 DEF Count
  <2>2. \A v : Active(v)' = Active(v)
    BY <1>1 DEF Active
  <2> QED BY <1>1, <1>2, <2>1, <2>2 DEF Untouched
<1> QED BY <1>1, <1>2, <1>3, <1>4 DEF RowsGrow

\* Whoever holds a lock is where the code takes it.
LEMMA HoldersLemma ==
    ASSUME IndInv
    PROVE  /\ NoOne \notin Proc
           /\ \A k \in Key : keyLock[k] # NoOne =>
                 keyLock[k] \in Proc /\ Reserving(keyLock[k]) /\ Locking(keyLock[k])
           /\ \A o \in Object : objectLock[o] # NoOne =>
                 objectLock[o] \in Proc /\ Locking(objectLock[o])
<1>1. LockTypes /\ NoOne \notin Proc
  BY TypesLemma, ExecutionAssumption DEF IndInv
<1>2. \A x : Reserving(x) => Locking(x)
  BY DEF Reserving, Locking
<1> QED BY <1>1, <1>2 DEF IndInv, Locks, LockTypes

\* A step that frees whatever the caller has locked disturbs no other lock.
LEMMA FreeLemma ==
    ASSUME IndInv, NEW p \in Proc, \A x \in Proc \ {p} : Same(x), ~Locking(p)',
           \A k \in Key : keyLock'[k] = IF keyLock[k] = p THEN NoOne ELSE keyLock[k],
           \A o \in Object : objectLock'[o] = IF objectLock[o] = p THEN NoOne ELSE objectLock[o],
           \A k \in Key : keyLock[k] \notin {NoOne, p} => operation'[k] = NoOne
    PROVE  Locks'
<1>1. \A x \in Proc \ {p} : /\ Locking(x)' = Locking(x) /\ Reserving(x)' = Reserving(x)
                            /\ ask'[x] = ask[x] /\ ObjectAsked(x)' = ObjectAsked(x)
  BY DEF Same, Locking, Reserving, ObjectAsked
<1>2. ~Reserving(p)'
  BY DEF Locking, Reserving
<1>3. ASSUME NEW k \in Key, keyLock'[k] # NoOne
      PROVE  operation'[k] = NoOne /\ (Reserving(keyLock[k]))' /\ (ask[keyLock[k]].key = k)'
  <2>1. keyLock[k] # p /\ keyLock[k] # NoOne
    BY <1>3
  <2>2. PICK u \in Proc \ {p} : u = keyLock[k] /\ u = keyLock'[k]
    BY <2>1, HoldersLemma
  <2>3. Reserving(u) /\ ask[u].key = k
    BY <2>1, <2>2 DEF IndInv, Locks
  <2>4. Reserving(u)' /\ ask'[u].key = k
    BY <1>1, <2>2, <2>3
  <2> QED BY <2>1, <2>2, <2>4 DEF Reserving
<1>4. ASSUME NEW o \in Object, objectLock'[o] # NoOne
      PROVE  (Locking(objectLock[o]))' /\ (ObjectAsked(objectLock[o]) = o)'
  <2>1. objectLock[o] # p /\ objectLock[o] # NoOne
    BY <1>4
  <2>2. PICK u \in Proc \ {p} : u = objectLock[o] /\ u = objectLock'[o]
    BY <2>1, HoldersLemma
  <2>3. Locking(u) /\ ObjectAsked(u) = o
    BY <2>1, <2>2 DEF IndInv, Locks
  <2>4. Locking(u)' /\ ObjectAsked(u)' = o
    BY <1>1, <2>2, <2>3
  <2> QED BY <2>2, <2>4 DEF Locking, ObjectAsked
<1>5. ASSUME NEW x \in Proc, Reserving(x)'
      PROVE  (keyLock[ask[x].key] = x)'
  <2>1. x # p /\ Reserving(x) /\ ask'[x] = ask[x]
    BY <1>1, <1>2, <1>5
  <2>2. keyLock[ask[x].key] = x /\ ask[x].key \in Key
    BY <2>1, AskedLemma DEF IndInv, Locks, Reserving
  <2> QED BY <2>1, <2>2
<1>6. ASSUME NEW x \in Proc, Locking(x)'
      PROVE  (objectLock[ObjectAsked(x)] = x)'
  <2>1. x # p /\ Locking(x)
    BY <1>1, <1>6
  <2>2. PICK o \in Object : o = ObjectAsked(x) /\ o = ObjectAsked(x)' /\ objectLock[o] = x
    BY <1>1, <2>1, AskedLemma DEF IndInv, Locks, Locking
  <2> QED BY <2>1, <2>2
<1> QED BY <1>3, <1>4, <1>5, <1>6 DEF Locks

\* Who holds no lock, before and after, disturbs none.
LEMMA QuietLocks ==
    ASSUME IndInv, NEW p \in Proc, \A x \in Proc \ {p} : Same(x), ~Locking(p), ~Locking(p)',
           UNCHANGED locks,
           \A k \in Key : keyLock[k] # NoOne => operation'[k] = NoOne
    PROVE  Locks' /\ LockTypes'
<1>1. keyLock' = keyLock /\ objectLock' = objectLock
  BY DEF locks
<1>2. /\ \A k \in Key : keyLock[k] # p
      /\ \A o \in Object : objectLock[o] # p
  BY HoldersLemma
<1>3. LockTypes'
  BY <1>1, TypesLemma DEF IndInv, LockTypes
<1> QED BY <1>1, <1>2, <1>3, FreeLemma

\* COMMIT and ROLLBACK free what the caller has locked.
LEMMA UnlockLemma ==
    ASSUME IndInv, NEW p \in Proc, \A x \in Proc \ {p} : Same(x), ~Locking(p)', Unlock(p),
           \A k \in Key : keyLock[k] # p => operation'[k] = operation[k]
    PROVE  Locks' /\ LockTypes'
<1>1. /\ \A k \in Key : keyLock'[k] = IF keyLock[k] = p THEN NoOne ELSE keyLock[k]
      /\ \A o \in Object : objectLock'[o] = IF objectLock[o] = p THEN NoOne ELSE objectLock[o]
  BY DEF Unlock
<1>2. \A k \in Key : keyLock[k] \notin {NoOne, p} => operation'[k] = NoOne
  BY DEF IndInv, Locks
<1>3. LockTypes'
  BY TypesLemma DEF IndInv, LockTypes, Unlock
<1> QED BY <1>1, <1>2, <1>3, FreeLemma

\* A step of a caller that writes no row and holds no lock.
LEMMA MoveStep ==
    ASSUME IndInv, NEW p \in Proc, UNCHANGED <<rows, locks, crashes>>, LocalTypes',
           \A x \in Proc \ {p} : Same(x), ~Locking(p), ~Locking(p)', CallerInv(p)'
    PROVE  IndInv'
<1>1. RowTypes' /\ Rows' /\ Numbers' /\ RowsGrow(p)
  BY QuietRows
<1>2. \A k \in Key : keyLock[k] # NoOne => operation'[k] = NoOne
  BY DEF IndInv, Locks, rows
<1>3. Locks' /\ LockTypes'
  BY <1>2, QuietLocks
<1>4. crashes' \in 0..MaxCrashes
  BY TypesLemma DEF IndInv
<1>5. \A x \in Proc : CallerInv(x)'
  BY <1>1, CallersLemma
<1>6. TypeOK'
  BY <1>1, <1>3, <1>4, TypesStep
<1> QED BY <1>1, <1>3, <1>5, <1>6 DEF IndInv

-------------------------------------------------------------------------------
\* The actions.

\* What is local to the callers is of its type.
LEMMA LocalsLemma == IndInv => LocalTypes
BY TypesLemma DEF IndInv

LEMMA RequestStep ==
    ASSUME IndInv, NEW p \in Proc, Request(p)
    PROVE  IndInv'
<1>1. PICK a \in Requests : ask' = [ask EXCEPT ![p] = a]
  BY DEF Request, Requests
<1>2. /\ pc[p] = "idle" /\ pc' = [pc EXCEPT ![p] = "preflight"]
      /\ round' = [round EXCEPT ![p] = 1]
      /\ target' = target /\ myRun' = myRun /\ inTransaction' = inTransaction /\ result' = result
      /\ UNCHANGED <<rows, locks, crashes>>
  BY DEF Request, Goto
<1>3. "preflight" \in Places /\ 1 \in 0..MaxOwnershipRetries
  BY DEF Places, MaxOwnershipRetries
<1>4. /\ LocalTypes' /\ \A x \in Proc \ {p} : Same(x)
      /\ pc'[p] = "preflight" /\ ask'[p] = a /\ round'[p] = 1 /\ result'[p] = result[p]
  <2>1. LocalTypes
    BY LocalsLemma
  <2>2. LocalTypes'
    BY <1>1, <1>2, <1>3, <2>1 DEF LocalTypes
  <2> QED BY <1>1, <1>2, <2>1, <2>2 DEF LocalTypes, Same
<1>5. CallerInv(p)'
  <2>1. result[p] = "none"
    BY <1>2 DEF IndInv, CallerInv
  <2> QED BY <1>4, <2>1 DEF CallerInv, Requests
<1>6. ~Locking(p) /\ ~Locking(p)'
  BY <1>2, <1>4 DEF Locking
<1> QED BY <1>2, <1>4, <1>5, <1>6, MoveStep

LEMMA PreflightStep ==
    ASSUME IndInv, NEW p \in Proc, Preflight(p)
    PROVE  IndInv'
<1>1. PICK f : f = operation[ask[p].key]
  OBVIOUS
<1>2. /\ pc[p] = "preflight" /\ ask' = ask /\ round' = round /\ target' = target
      /\ UNCHANGED <<rows, locks, crashes>>
      /\ \/ /\ f = NoOne /\ pc' = [pc EXCEPT ![p] = "assemble"]
            /\ inTransaction' = [inTransaction EXCEPT ![p] = FALSE]
            /\ myRun' = myRun /\ result' = result
         \/ /\ f # NoOne /\ pc' = [pc EXCEPT ![p] = "return"]
            /\ inTransaction' = [inTransaction EXCEPT ![p] = TRUE] /\ myRun' = myRun
            /\ \/ result' = [result EXCEPT ![p] = "IDEMPOTENCY_CONFLICT"]
               \/ result' = [result EXCEPT ![p] = "INVALID_CONTEXT_PACKAGE"]
         \/ /\ f # NoOne /\ f.run # Rejected /\ pc' = [pc EXCEPT ![p] = "snapshot"]
            /\ inTransaction' = [inTransaction EXCEPT ![p] = TRUE]
            /\ myRun' = [myRun EXCEPT ![p] = f.run] /\ result' = result
  BY <1>1 DEF Preflight, Return, Goto, Begin, End
<1>3. /\ LocalTypes /\ ask[p] \in Requests /\ ask[p].key \in Key
      /\ "assemble" \in Places /\ "return" \in Places /\ "snapshot" \in Places
      /\ "IDEMPOTENCY_CONFLICT" \in Answers /\ "INVALID_CONTEXT_PACKAGE" \in Answers
  BY <1>2, LocalsLemma, AskedLemma DEF Places, Answers
<1>4. /\ f # NoOne => f.run \in Nat
      /\ f # NoOne /\ f.run # Rejected => f.run \in 1..Len(runs)
  <2>1. operation \in [Key -> [hash : Identity, run : Nat] \union {NoOne}]
    BY TypesLemma DEF IndInv, RowTypes
  <2> QED BY <1>1, <1>3, <2>1 DEF IndInv, Rows
<1>5. LocalTypes'
  <2>1. /\ \E l \in Places : pc' = [pc EXCEPT ![p] = l]
        /\ \E b \in BOOLEAN : inTransaction' = [inTransaction EXCEPT ![p] = b]
        /\ result' = result \/ \E a \in Answers : result' = [result EXCEPT ![p] = a]
        /\ myRun' = myRun \/ \E r \in Nat : myRun' = [myRun EXCEPT ![p] = r]
    BY <1>2, <1>3, <1>4
  <2>2. pc' \in [Proc -> Places] /\ inTransaction' \in [Proc -> BOOLEAN]
    BY <1>3, <2>1 DEF LocalTypes
  <2>3. result' \in [Proc -> Answers]
    BY <1>3, <2>1 DEF LocalTypes
  <2>4. myRun' \in [Proc -> Nat]
    BY <1>3, <2>1 DEF LocalTypes
  <2> QED BY <1>2, <1>3, <2>2, <2>3, <2>4 DEF LocalTypes
<1>6. \A x \in Proc \ {p} : Same(x)
  BY <1>2, <1>3 DEF LocalTypes, Same
<1>7. /\ ask'[p] = ask[p] /\ round'[p] = round[p]
      /\ \/ pc'[p] = "assemble" /\ f = NoOne /\ ~inTransaction'[p] /\ result'[p] = result[p]
         \/ pc'[p] = "return" /\ result'[p] # "RuntimeError"
         \/ pc'[p] = "snapshot" /\ myRun'[p] \in 1..Len(runs) /\ result'[p] = result[p]
  <2>1. /\ pc \in [Proc -> Places] /\ myRun \in [Proc -> Nat] /\ result \in [Proc -> Answers]
        /\ inTransaction \in [Proc -> BOOLEAN]
    BY <1>3 DEF LocalTypes
  <2> QED BY <1>2, <1>4, <2>1
<1>8. CallerInv(p)'
  <2>1. /\ result[p] = "none" /\ round[p] <= 2
        /\ round[p] = 1 \/ (round[p] = 2 /\ f # NoOne)
    BY <1>1, <1>2 DEF IndInv, CallerInv
  <2>2. runs' = runs
    BY <1>2 DEF rows
  <2> QED BY <1>3, <1>7, <2>1, <2>2 DEF CallerInv, Requests
<1>9. ~Locking(p) /\ ~Locking(p)'
  BY <1>2, <1>7 DEF Locking
<1> QED BY <1>2, <1>5, <1>6, <1>8, <1>9, MoveStep

LEMMA SnapshotStep ==
    ASSUME IndInv, NEW p \in Proc, Snapshot(p)
    PROVE  IndInv'
<1>1. /\ pc[p] = "snapshot" /\ pc' = [pc EXCEPT ![p] = "phaseB"]
      /\ inTransaction' = [inTransaction EXCEPT ![p] = FALSE]
      /\ ask' = ask /\ round' = round /\ target' = target /\ myRun' = myRun /\ result' = result
      /\ UNCHANGED <<rows, locks, crashes>>
  BY DEF Snapshot, Goto, End
<1>2. LocalTypes /\ "phaseB" \in Places
  BY LocalsLemma DEF Places
<1>3. LocalTypes'
  BY <1>1, <1>2 DEF LocalTypes
<1>4. /\ \A x \in Proc \ {p} : Same(x)
      /\ pc'[p] = "phaseB" /\ ~inTransaction'[p]
  BY <1>1, <1>2 DEF LocalTypes, Same
<1>5. CallerInv(p)'
  <2>1. /\ ask[p] \in Requests /\ myRun[p] \in 1..Len(runs) /\ result[p] = "none" /\ round[p] <= 2
    BY <1>1 DEF IndInv, CallerInv
  <2>2. runs' = runs
    BY <1>1 DEF rows
  <2> QED BY <1>1, <1>4, <2>1, <2>2 DEF CallerInv, Requests
<1>6. ~Locking(p) /\ ~Locking(p)'
  BY <1>1, <1>4 DEF Locking
<1> QED BY <1>1, <1>3, <1>4, <1>5, <1>6, MoveStep

\* Who goes away leaves nothing behind.
LEMMA LeaveLemma ==
    ASSUME IndInv, NEW p \in Proc, Leave(p), NEW b \in BOOLEAN,
           inTransaction' = [inTransaction EXCEPT ![p] = b]
    PROVE  /\ LocalTypes' /\ \A x \in Proc \ {p} : Same(x)
           /\ pc'[p] = "idle" /\ ~Locking(p)' /\ CallerInv(p)'
<1>1. /\ pc' = [pc EXCEPT ![p] = "idle"] /\ ask' = [ask EXCEPT ![p] = NoOne]
      /\ round' = [round EXCEPT ![p] = 0] /\ target' = [target EXCEPT ![p] = NoTarget]
      /\ myRun' = [myRun EXCEPT ![p] = 0] /\ result' = [result EXCEPT ![p] = "none"]
  BY DEF Leave, Goto
<1>2. /\ LocalTypes /\ "idle" \in Places /\ "none" \in Answers /\ 0 \in 0..MaxOwnershipRetries
      /\ NoTarget \in [id : Nat, number : Nat]
  BY LocalsLemma DEF Places, Answers, NoTarget, MaxOwnershipRetries
<1>3. LocalTypes'
  BY <1>1, <1>2 DEF LocalTypes
<1>4. /\ \A x \in Proc \ {p} : Same(x)
      /\ pc'[p] = "idle" /\ result'[p] = "none" /\ round'[p] = 0
  BY <1>1, <1>2 DEF LocalTypes, Same
<1>5. ~Locking(p)' /\ CallerInv(p)'
  BY <1>4 DEF Locking, CallerInv
<1> QED BY <1>3, <1>4, <1>5

LEMMA ReceiveStep ==
    ASSUME IndInv, NEW p \in Proc, Receive(p)
    PROVE  IndInv'
<1>1. pc[p] = "return" /\ Leave(p) /\ UNCHANGED <<rows, locks, crashes>>
  BY DEF Receive
<1>2. PICK b \in BOOLEAN : inTransaction' = [inTransaction EXCEPT ![p] = b]
  <2>1. inTransaction \in [Proc -> BOOLEAN]
    BY LocalsLemma DEF LocalTypes
  <2>2. inTransaction = [inTransaction EXCEPT ![p] = inTransaction[p]] /\ inTransaction[p] \in BOOLEAN
    BY <2>1
  <2> QED BY <2>2 DEF Receive
<1>3. /\ LocalTypes' /\ \A x \in Proc \ {p} : Same(x)
      /\ ~Locking(p)' /\ CallerInv(p)'
  BY <1>1, <1>2, LeaveLemma
<1>4. ~Locking(p)
  BY <1>1 DEF Locking
<1> QED BY <1>1, <1>3, <1>4, MoveStep

LEMMA CrashStep ==
    ASSUME IndInv, NEW p \in Proc, Crash(p)
    PROVE  IndInv'
<1>1. /\ Leave(p) /\ inTransaction' = [inTransaction EXCEPT ![p] = FALSE]
      /\ Unlock(p) /\ UNCHANGED rows /\ crashes < MaxCrashes /\ crashes' = crashes + 1
  BY DEF Crash, End
<1>2. /\ LocalTypes' /\ \A x \in Proc \ {p} : Same(x)
      /\ ~Locking(p)' /\ CallerInv(p)'
  BY <1>1, LeaveLemma
<1>3. RowTypes' /\ Rows' /\ Numbers' /\ RowsGrow(p)
  BY <1>1, QuietRows
<1>4. Locks' /\ LockTypes'
  BY <1>1, <1>2, UnlockLemma DEF rows
<1>5. crashes' \in 0..MaxCrashes
  <2>1. crashes \in 0..MaxCrashes /\ MaxCrashes \in Nat
    BY TypesLemma, ExecutionAssumption DEF IndInv
  <2> QED BY <1>1, <2>1
<1>6. TypeOK' /\ \A x \in Proc : CallerInv(x)'
  BY <1>2, <1>3, <1>4, <1>5, TypesStep, CallersLemma
<1> QED BY <1>3, <1>4, <1>6 DEF IndInv

-------------------------------------------------------------------------------
\* The actions that write rows or take locks.

\* A run that is not new stays about what it was, and does not start again.
SameRuns ==
    /\ Len(runs') = Len(runs)
    /\ \A r \in 1..Len(runs) :
          /\ runs'[r].key = runs[r].key /\ runs'[r].object = runs[r].object
          /\ runs'[r].version = runs[r].version
          /\ runs'[r].status = "ACTIVE" => runs[r].status = "ACTIVE"

\* A step that adds no version, no run and no reservation.
LEMMA UpdateLemma ==
    ASSUME IndInv, NEW p, SameVersions, SameRuns, operation' = operation,
           \A k \in Key : context[k] # NoOne => context'[k] = context[k]
    PROVE  Rows' /\ Numbers' /\ RowsGrow(p)
<1>1. /\ RowTypes /\ Rows /\ Len(versions) \in Nat /\ Len(runs) \in Nat
      /\ Len(versions') = Len(versions) /\ Len(runs') = Len(runs)
      /\ \A r \in 1..Len(runs) : runs[r].key \in Key /\ runs[r].object \in Object
  BY TypesLemma, TablesLemma DEF IndInv, SameVersions, SameRuns, RunRows
<1>2. ASSUME NEW o PROVE Untouched(o)
  <2>1. Count(Len(versions), o)' = Count(Len(versions), o)
    <3>1. PICK n \in Nat : n = Len(versions) /\ n = Len(versions')
      BY <1>1
    <3>2. \A v \in 1..n : versions'[v].object = versions[v].object
      BY <3>1 DEF SameVersions
    <3>3. Count(n, o)' = Count(n, o)
      BY <3>2, CountSame
    <3> QED BY <3>1, <3>3 DEF Count
  <2>2. ASSUME NEW v, Active(v)' PROVE Active(v)
    BY <1>1, <2>2 DEF Active, SameRuns
  <2>3. \A v \in 1..Len(versions) : versions'[v].object = versions[v].object
    BY DEF SameVersions
  <2> QED BY <1>1, <2>1, <2>2, <2>3 DEF Untouched
<1>3. Rows'
  <2>1. \A r \in 1..Len(runs') :
           /\ operation'[runs'[r].key] # NoOne /\ operation'[runs'[r].key].run = r
           /\ runs'[r].version \in 1..Len(versions')
           /\ versions'[runs'[r].version].object = runs'[r].object
           /\ operation'[runs'[r].key].hash.object = runs'[r].object
    <3> SUFFICES ASSUME NEW r \in 1..Len(runs)
                 PROVE  /\ operation'[runs'[r].key] # NoOne /\ operation'[runs'[r].key].run = r
                        /\ runs'[r].version \in 1..Len(versions')
                        /\ versions'[runs'[r].version].object = runs'[r].object
                        /\ operation'[runs'[r].key].hash.object = runs'[r].object
      BY <1>1
    <3>1. /\ runs'[r].key = runs[r].key /\ runs'[r].object = runs[r].object
          /\ runs'[r].version = runs[r].version /\ runs[r].version \in 1..Len(versions)
      BY <1>1 DEF Rows, SameRuns
    <3>2. versions'[runs[r].version].object = versions[runs[r].version].object
      BY <3>1 DEF SameVersions
    <3>3. /\ operation[runs[r].key] # NoOne /\ operation[runs[r].key].run = r
          /\ versions[runs[r].version].object = runs[r].object
          /\ operation[runs[r].key].hash.object = runs[r].object
      BY <1>1 DEF Rows
    <3>4. operation'[runs'[r].key] = operation[runs[r].key]
      BY <3>1
    <3> QED BY <1>1, <3>1, <3>2, <3>3, <3>4
  <2>2. \A r \in 1..Len(runs') : context'[runs'[r].key] = [object |-> runs'[r].object, assembled |-> TRUE]
    <3> SUFFICES ASSUME NEW r \in 1..Len(runs)
                 PROVE  context'[runs'[r].key] = [object |-> runs'[r].object, assembled |-> TRUE]
      BY <1>1
    <3>1. [object |-> runs[r].object, assembled |-> TRUE] \in [object : Object, assembled : BOOLEAN]
      BY <1>1
    <3>2. context[runs[r].key] # NoOne
      BY <1>1, <3>1, ExecutionAssumption DEF Rows
    <3> QED BY <1>1, <3>2 DEF Rows, SameRuns
  <2>3. \A k \in Key : operation'[k] # NoOne =>
           /\ operation'[k].run # Rejected =>
                 operation'[k].run \in 1..Len(runs') /\ runs'[operation'[k].run].key = k
           /\ context'[k] # NoOne /\ context'[k].object = operation'[k].hash.object
    BY <1>1 DEF Rows, SameRuns
  <2>4. \A r, s \in 1..Len(runs') :
           runs'[r].version = runs'[s].version /\ runs'[r].status = "ACTIVE" /\ runs'[s].status = "ACTIVE"
              => r = s
    BY <1>1 DEF Rows, SameRuns
  <2> QED BY <2>1, <2>2, <2>3, <2>4 DEF Rows
<1>4. RowsGrow(p)
  BY <1>1, <1>2 DEF RowsGrow
<1> QED BY <1>3, <1>4, NumbersSame

LEMMA AssembleStep ==
    ASSUME IndInv, NEW p \in Proc, Assemble(p)
    PROVE  IndInv'
<1>1. PICK k \in Key, o \in Object : k = ask[p].key /\ o = ObjectAsked(p)
  BY AskedLemma DEF Assemble
<1>2. /\ pc[p] = "assemble" /\ ask' = ask /\ round' = round /\ target' = target /\ myRun' = myRun
      /\ inTransaction' = inTransaction /\ versions' = versions /\ runs' = runs
      /\ operation' = operation /\ UNCHANGED <<locks, crashes>>
  BY DEF Assemble
<1>3. /\ LocalTypes /\ RowTypes /\ ask[p] \in Requests
      /\ "lockObject" \in Places /\ "reject" \in Places /\ "return" \in Places
      /\ "IDEMPOTENCY_CONFLICT" \in Answers
  BY <1>2, LocalsLemma, TypesLemma, AskedLemma DEF IndInv, Places, Answers
<1>4. context[k] # NoOne => context[k] = [object |-> context[k].object, assembled |-> context[k].assembled]
                            /\ context[k].assembled \in BOOLEAN
  BY <1>3 DEF RowTypes
<1>5. /\ \/ context' = context
         \/ context[k] = NoOne /\ \E b \in BOOLEAN : context' = [context EXCEPT ![k] = [object |-> o, assembled |-> b]]
      /\ \/ /\ result' = result
            /\ \E b \in BOOLEAN : /\ pc' = [pc EXCEPT ![p] = IF b THEN "lockObject" ELSE "reject"]
                                  /\ context'[k] = [object |-> o, assembled |-> b]
         \/ /\ pc' = [pc EXCEPT ![p] = "return"]
            /\ result' = [result EXCEPT ![p] = "IDEMPOTENCY_CONFLICT"]
  <2>1. CASE context[k] = NoOne
    <3>1. PICK b \in BOOLEAN : /\ context' = [context EXCEPT ![k] = [object |-> o, assembled |-> b]]
                               /\ pc' = [pc EXCEPT ![p] = IF b THEN "lockObject" ELSE "reject"]
                               /\ result' = result
      BY <1>1, <2>1 DEF Assemble, Goto, ObjectAsked
    <3>2. context'[k] = [object |-> o, assembled |-> b]
      BY <1>3, <3>1 DEF RowTypes
    <3> QED BY <2>1, <3>1, <3>2
  <2>2. CASE context[k] # NoOne /\ context[k].object = o
    <3>1. /\ context' = context /\ result' = result
          /\ pc' = [pc EXCEPT ![p] = IF context[k].assembled THEN "lockObject" ELSE "reject"]
      BY <1>1, <2>2 DEF Assemble, Goto, ObjectAsked
    <3> QED BY <1>4, <2>2, <3>1
  <2>3. CASE context[k] # NoOne /\ context[k].object # o
    BY <1>1, <2>3 DEF Assemble, Goto, Return, ObjectAsked
  <2> QED BY <2>1, <2>2, <2>3
<1>6. RowTypes'
  <2>1. \A b \in BOOLEAN : [object |-> o, assembled |-> b] \in [object : Object, assembled : BOOLEAN]
    OBVIOUS
  <2> QED BY <1>2, <1>3, <1>5, <2>1 DEF RowTypes
<1>7. \A i \in Key : context[i] # NoOne => context'[i] = context[i]
  BY <1>3, <1>5 DEF RowTypes
<1>8. Rows' /\ Numbers' /\ RowsGrow(p)
  <2>1. SameVersions /\ SameRuns
    BY <1>2 DEF SameVersions, SameRuns
  <2> QED BY <1>2, <1>7, <2>1, UpdateLemma
<1>9. /\ LocalTypes' /\ \A x \in Proc \ {p} : Same(x)
  <2>1. /\ \E l \in Places : pc' = [pc EXCEPT ![p] = l]
        /\ result' = result \/ \E a \in Answers : result' = [result EXCEPT ![p] = a]
    BY <1>3, <1>5
  <2>2. pc' \in [Proc -> Places]
    BY <1>3, <2>1 DEF LocalTypes
  <2>3. result' \in [Proc -> Answers]
    BY <1>3, <2>1 DEF LocalTypes
  <2>4. \A x \in Proc \ {p} : pc'[x] = pc[x] /\ result'[x] = result[x]
    BY <1>3, <2>1 DEF LocalTypes
  <2> QED BY <1>2, <1>3, <2>2, <2>3, <2>4 DEF LocalTypes, Same
<1>10. /\ ask'[p] = ask[p] /\ round'[p] = round[p] /\ ObjectAsked(p)' = o
       /\ \/ pc'[p] = "return" /\ result'[p] # "RuntimeError"
          \/ result'[p] = result[p] /\ pc'[p] = "lockObject" /\ context'[k] = [object |-> o, assembled |-> TRUE]
          \/ result'[p] = result[p] /\ pc'[p] = "reject" /\ context'[k] = [object |-> o, assembled |-> FALSE]
  <2>1. pc \in [Proc -> Places] /\ result \in [Proc -> Answers]
    BY <1>3 DEF LocalTypes
  <2>2. ObjectAsked(p)' = o
    BY <1>1, <1>2 DEF ObjectAsked
  <2> QED BY <1>2, <1>5, <2>1, <2>2
<1>11. CallerInv(p)'
  <2>1. result[p] = "none" /\ round[p] = 1
    BY <1>2 DEF IndInv, CallerInv
  <2>2. ask'[p].key = k
    BY <1>1, <1>2
  <2> QED BY <1>3, <1>10, <2>1, <2>2 DEF CallerInv, Requests
<1>12. ~Locking(p) /\ ~Locking(p)'
  BY <1>2, <1>10 DEF Locking
<1>13. Locks' /\ LockTypes'
  BY <1>2, <1>9, <1>12, QuietLocks DEF IndInv, Locks
<1>14. TypeOK' /\ \A x \in Proc : CallerInv(x)'
  <2>1. crashes' \in 0..MaxCrashes
    BY <1>2, TypesLemma DEF IndInv
  <2> QED BY <1>6, <1>8, <1>9, <1>11, <1>13, <2>1, TypesStep, CallersLemma
<1> QED BY <1>8, <1>13, <1>14 DEF IndInv

\* continue, the first time: the next iteration of the ownership loop.
LEMMA TryAgainLemma ==
    ASSUME IndInv, NEW p \in Proc, TryAgain(p), round[p] = 1
    PROVE  /\ round' = [round EXCEPT ![p] = 2] /\ pc' = [pc EXCEPT ![p] = "preflight"]
           /\ result' = result
BY DEF TryAgain, Goto, MaxOwnershipRetries

LEMMA RejectStep ==
    ASSUME IndInv, NEW p \in Proc, Reject(p)
    PROVE  IndInv'
<1>1. PICK k \in Key, o \in Object : k = ask[p].key /\ o = ObjectAsked(p)
  BY AskedLemma DEF Reject
<1>2. /\ pc[p] = "reject" /\ keyLock[k] = NoOne /\ ask' = ask /\ target' = target /\ myRun' = myRun
      /\ inTransaction' = inTransaction /\ versions' = versions /\ runs' = runs
      /\ context' = context /\ UNCHANGED <<locks, crashes>>
  BY <1>1 DEF Reject
<1>3. /\ LocalTypes /\ RowTypes /\ ask[p] \in Requests /\ ask[p].identity \in Identity
      /\ "preflight" \in Places /\ "return" \in Places /\ "INVALID_CONTEXT_PACKAGE" \in Answers
      /\ 2 \in 0..MaxOwnershipRetries /\ 0 \in Nat
  BY <1>2, LocalsLemma, TypesLemma, AskedLemma DEF IndInv, Places, Answers, MaxOwnershipRetries
<1>4. /\ result[p] = "none" /\ round[p] = 1
      /\ context[k] = [object |-> o, assembled |-> FALSE]
  BY <1>1, <1>2 DEF IndInv, CallerInv
<1>5. CASE operation[k] # NoOne
  <2>1. /\ round' = [round EXCEPT ![p] = 2] /\ pc' = [pc EXCEPT ![p] = "preflight"]
        /\ result' = result /\ operation' = operation
    BY <1>1, <1>4, <1>5, TryAgainLemma DEF Reject
  <2>2. LocalTypes'
    BY <1>2, <1>3, <2>1 DEF LocalTypes
  <2>3. /\ \A x \in Proc \ {p} : Same(x)
        /\ pc'[p] = "preflight" /\ round'[p] = 2
    BY <1>2, <1>3, <2>1 DEF LocalTypes, Same
  <2>4. CallerInv(p)'
    BY <1>1, <1>2, <1>3, <1>4, <1>5, <2>1, <2>3 DEF CallerInv, Requests
  <2>5. ~Locking(p) /\ ~Locking(p)' /\ UNCHANGED rows
    BY <1>2, <2>1, <2>3 DEF Locking, rows
  <2> QED BY <1>2, <2>2, <2>3, <2>4, <2>5, MoveStep
<1>6. CASE operation[k] = NoOne
  <2>1. PICK e \in [hash : Identity, run : Nat] :
           /\ e.run = 0 /\ e.hash.object = o
           /\ operation' = [operation EXCEPT ![k] = e]
    <3> DEFINE e == [hash |-> ask[p].identity, run |-> 0]
    <3>1. e \in [hash : Identity, run : Nat] /\ e.run = 0 /\ e.hash.object = o
      BY <1>1, <1>3 DEF ObjectAsked
    <3>2. operation' = [operation EXCEPT ![k] = e]
      BY <1>1, <1>6 DEF Reject, Rejected
    <3> QED BY <3>1, <3>2
  <2>2. /\ round' = round /\ pc' = [pc EXCEPT ![p] = "return"]
        /\ result' = [result EXCEPT ![p] = "INVALID_CONTEXT_PACKAGE"]
    BY <1>1, <1>6 DEF Reject, Return, Goto
  <2>3. LocalTypes'
    BY <1>2, <1>3, <2>2 DEF LocalTypes
  <2>4. /\ \A x \in Proc \ {p} : Same(x)
        /\ pc'[p] = "return" /\ round'[p] = 1 /\ result'[p] = "INVALID_CONTEXT_PACKAGE"
    BY <1>2, <1>3, <1>4, <2>2 DEF LocalTypes, Same
  <2>5. /\ RowTypes'
        /\ operation'[k] = e /\ \A i \in Key \ {k} : operation'[i] = operation[i]
    BY <1>2, <1>3, <2>1 DEF RowTypes
  <2>6. e # NoOne /\ context[k] # NoOne /\ context[k].object = o
    <3>1. [object |-> o, assembled |-> FALSE] \in [object : Object, assembled : BOOLEAN]
      OBVIOUS
    <3>2. e # NoOne
      BY <2>1, ExecutionAssumption
    <3>3. context[k] # NoOne
      BY <1>4, <3>1, ExecutionAssumption
    <3>4. context[k].object = o
      BY <1>4
    <3> QED BY <3>2, <3>3, <3>4
  <2>7. Rows'
    <3>1. Rows /\ \A r \in 1..Len(runs) : runs[r].key \in Key \ {k}
      BY <1>3, <1>6, TablesLemma DEF IndInv, Rows, RunRows
    <3>2. \A r \in 1..Len(runs) : operation'[runs[r].key] = operation[runs[r].key]
      BY <2>5, <3>1
    <3>3. \A i \in Key : operation'[i] # NoOne =>
             /\ operation'[i].run # Rejected =>
                   operation'[i].run \in 1..Len(runs) /\ runs[operation'[i].run].key = i
             /\ context[i] # NoOne /\ context[i].object = operation'[i].hash.object
      <4> SUFFICES ASSUME NEW i \in Key, operation'[i] # NoOne
                   PROVE  /\ operation'[i].run # Rejected =>
                                operation'[i].run \in 1..Len(runs) /\ runs[operation'[i].run].key = i
                          /\ context[i] # NoOne /\ context[i].object = operation'[i].hash.object
        OBVIOUS
      <4>1. CASE i = k
        BY <2>1, <2>5, <2>6, <4>1 DEF Rejected
      <4>2. CASE i # k
        BY <2>5, <3>1, <4>2 DEF Rows
      <4> QED BY <4>1, <4>2
    <3> QED BY <1>2, <3>1, <3>2, <3>3 DEF Rows
  <2>8. Numbers' /\ RowsGrow(p)
    <3>1. SameVersions
      BY <1>2 DEF SameVersions
    <3>2. \A v : Active(v)' = Active(v)
      BY <1>2 DEF Active
    <3>3. \A o2 : Untouched(o2)
      BY <1>2, <3>2 DEF Untouched, Count
    <3>4. Len(runs) \in Nat /\ \A i \in Key : operation[i] # NoOne => operation'[i] # NoOne
      BY <1>3, <1>6, <2>5, TablesLemma
    <3> QED BY <1>2, <3>1, <3>3, <3>4, NumbersSame DEF RowsGrow
  <2>9. CallerInv(p)'
    BY <1>2, <1>3, <2>4 DEF CallerInv, Requests
  <2>10. ~Locking(p) /\ ~Locking(p)'
    BY <1>2, <2>4 DEF Locking
  <2>11. Locks' /\ LockTypes'
    <3>1. \A i \in Key : keyLock[i] # NoOne => operation'[i] = NoOne
      BY <1>2, <2>5 DEF IndInv, Locks
    <3> QED BY <1>2, <2>4, <2>10, <3>1, QuietLocks
  <2>12. TypeOK' /\ \A x \in Proc : CallerInv(x)'
    <3>1. crashes' \in 0..MaxCrashes
      BY <1>2, TypesLemma DEF IndInv
    <3> QED BY <2>3, <2>4, <2>5, <2>8, <2>9, <2>11, <3>1, TypesStep, CallersLemma
  <2> QED BY <2>7, <2>8, <2>11, <2>12 DEF IndInv
<1> QED BY <1>5, <1>6

\* A caller that asks for the object o under the key a takes, or keeps, the lock of o; and
\* the reservation of a, where nobody has it and the key is not decided.
LEMMA TakeLemma ==
    ASSUME IndInv, NEW p \in Proc, NEW a \in Key, NEW o \in Object,
           \A x \in Proc \ {p} : Same(x),
           ask' = ask, ask[p].key = a, ObjectAsked(p) = o, operation' = operation,
           pc[p] # "commit", Locking(p)',
           objectLock[o] \in {NoOne, p},
           objectLock' = [objectLock EXCEPT ![o] = p],
           \/ ~Reserving(p)' /\ keyLock' = keyLock
           \/ /\ Reserving(p)' /\ keyLock' = [keyLock EXCEPT ![a] = p]
              /\ keyLock[a] = NoOne /\ operation[a] = NoOne
    PROVE  Locks' /\ LockTypes'
<1>1. \A x \in Proc \ {p} : /\ Locking(x)' = Locking(x) /\ Reserving(x)' = Reserving(x)
                            /\ ask'[x] = ask[x] /\ ObjectAsked(x)' = ObjectAsked(x)
  BY DEF Same, Locking, Reserving, ObjectAsked
<1>2. ~Reserving(p) /\ LockTypes /\ ObjectAsked(p)' = o
  BY TypesLemma DEF IndInv, Reserving, ObjectAsked
<1>3. LockTypes'
  BY <1>2 DEF LockTypes
<1>4. /\ objectLock'[o] = p /\ \A i \in Object \ {o} : objectLock'[i] = objectLock[i]
      /\ \A k \in Key \ {a} : keyLock'[k] = keyLock[k]
      /\ Reserving(p)' => keyLock'[a] = p /\ keyLock[a] = NoOne /\ operation[a] = NoOne
      /\ ~Reserving(p)' => keyLock'[a] = keyLock[a]
  BY <1>2 DEF LockTypes
<1>5. ASSUME NEW k \in Key, keyLock'[k] # NoOne
      PROVE  operation'[k] = NoOne /\ (Reserving(keyLock[k]))' /\ (ask[keyLock[k]].key = k)'
  <2>1. CASE k = a /\ Reserving(p)'
    BY <1>4, <2>1 DEF Reserving
  <2>2. CASE ~(k = a /\ Reserving(p)')
    <3>1. keyLock'[k] = keyLock[k]
      BY <1>4, <2>2
    <3>2. PICK u \in Proc \ {p} : u = keyLock[k] /\ u = keyLock'[k]
      BY <1>2, <1>5, <3>1, HoldersLemma
    <3>3. operation[k] = NoOne /\ Reserving(u) /\ ask[u].key = k
      BY <1>5, <3>1, <3>2 DEF IndInv, Locks
    <3>4. Reserving(u)'
      BY <1>1, <3>3
    <3> QED BY <3>2, <3>3, <3>4 DEF Reserving
  <2> QED BY <2>1, <2>2
<1>6. ASSUME NEW i \in Object, objectLock'[i] # NoOne
      PROVE  (Locking(objectLock[i]))' /\ (ObjectAsked(objectLock[i]) = i)'
  <2>1. CASE i = o
    BY <1>2, <1>4, <2>1 DEF Locking, ObjectAsked
  <2>2. CASE i # o
    <3>1. objectLock'[i] = objectLock[i]
      BY <1>4, <2>2
    <3>2. PICK u \in Proc : u = objectLock[i] /\ u = objectLock'[i]
      BY <1>6, <3>1, HoldersLemma
    <3>3. Locking(u) /\ ObjectAsked(u) = i
      BY <1>6, <3>1, <3>2 DEF IndInv, Locks
    <3>4. u # p
      BY <2>2, <3>3
    <3>5. Locking(u)' /\ ObjectAsked(u)' = i
      BY <1>1, <3>3, <3>4
    <3> QED BY <3>2, <3>5 DEF Locking, ObjectAsked
  <2> QED BY <2>1, <2>2
<1>7. ASSUME NEW x \in Proc, Reserving(x)'
      PROVE  (keyLock[ask[x].key] = x)'
  <2>1. CASE x = p
    BY <1>4, <1>7, <2>1
  <2>2. CASE x # p
    <3>1. Reserving(x) /\ NoOne \notin Proc
      BY <1>1, <1>7, <2>2, HoldersLemma
    <3>2. keyLock[ask[x].key] = x /\ ask[x].key \in Key
      BY <3>1, AskedLemma DEF IndInv, Locks, Reserving
    <3>3. keyLock'[ask[x].key] = x
      BY <1>4, <3>1, <3>2
    <3> QED BY <3>3
  <2> QED BY <2>1, <2>2
<1>8. ASSUME NEW x \in Proc, Locking(x)'
      PROVE  (objectLock[ObjectAsked(x)] = x)'
  <2>1. CASE x = p
    BY <1>2, <1>4, <2>1
  <2>2. CASE x # p
    <3>1. Locking(x) /\ NoOne \notin Proc
      BY <1>1, <1>8, <2>2, HoldersLemma
    <3>2. PICK i \in Object : i = ObjectAsked(x) /\ i = ObjectAsked(x)' /\ objectLock[i] = x
      BY <1>1, <2>2, <3>1, AskedLemma DEF IndInv, Locks, Locking
    <3>3. objectLock'[i] = x
      BY <1>4, <2>2, <3>1, <3>2
    <3> QED BY <3>2, <3>3
  <2> QED BY <2>1, <2>2
<1> QED BY <1>3, <1>5, <1>6, <1>7, <1>8 DEF Locks

\* A step of a caller that writes no row, and keeps what it has locked or takes more.
LEMMA LockingStep ==
    ASSUME IndInv, NEW p \in Proc, UNCHANGED <<rows, crashes>>, LocalTypes', Locks', LockTypes',
           \A x \in Proc \ {p} : Same(x), CallerInv(p)'
    PROVE  IndInv'
<1>1. RowTypes' /\ Rows' /\ Numbers' /\ RowsGrow(p)
  BY QuietRows
<1>2. crashes' \in 0..MaxCrashes
  BY TypesLemma DEF IndInv
<1>3. TypeOK' /\ \A x \in Proc : CallerInv(x)'
  BY <1>1, <1>2, TypesStep, CallersLemma
<1> QED BY <1>1, <1>3 DEF IndInv

LEMMA LockObjectStep ==
    ASSUME IndInv, NEW p \in Proc, LockObject(p)
    PROVE  IndInv'
<1>1. PICK k \in Key, o \in Object : k = ask[p].key /\ o = ObjectAsked(p)
  BY AskedLemma DEF LockObject
<1>2. /\ pc[p] = "lockObject" /\ objectLock[o] = NoOne
      /\ objectLock' = [objectLock EXCEPT ![o] = p] /\ keyLock' = keyLock
      /\ inTransaction' = [inTransaction EXCEPT ![p] = TRUE]
      /\ pc' = [pc EXCEPT ![p] = "version"]
      /\ ask' = ask /\ round' = round /\ target' = target /\ myRun' = myRun /\ result' = result
      /\ operation' = operation /\ UNCHANGED <<rows, crashes>>
  BY <1>1 DEF LockObject, Begin, Goto, ObjectAsked, rows
<1>3. LocalTypes /\ "version" \in Places /\ ask[p] \in Requests
  BY <1>2, LocalsLemma, AskedLemma DEF Places
<1>4. LocalTypes'
  BY <1>2, <1>3 DEF LocalTypes
<1>5. /\ \A x \in Proc \ {p} : Same(x)
      /\ pc'[p] = "version"
  BY <1>2, <1>3 DEF LocalTypes, Same
<1>6. CallerInv(p)'
  <2>1. /\ result[p] = "none" /\ round[p] = 1
        /\ context[k] = [object |-> o, assembled |-> TRUE]
    BY <1>1, <1>2 DEF IndInv, CallerInv
  <2>2. context' = context /\ ask'[p].key = k /\ ObjectAsked(p)' = o
    BY <1>1, <1>2 DEF rows, ObjectAsked
  <2> QED BY <1>2, <1>3, <1>5, <2>1, <2>2 DEF CallerInv, Requests
<1>7. Locks' /\ LockTypes'
  <2>1. Locking(p)' /\ ~Reserving(p)'
    BY <1>5 DEF Locking, Reserving
  <2> QED BY <1>1, <1>2, <1>5, <2>1, TakeLemma
<1> QED BY <1>2, <1>4, <1>5, <1>6, <1>7, LockingStep

LEMMA ChooseVersionStep ==
    ASSUME IndInv, NEW p \in Proc, ChooseVersion(p)
    PROVE  IndInv'
<1>1. PICK k \in Key, o \in Object : k = ask[p].key /\ o = ObjectAsked(p)
  BY AskedLemma DEF ChooseVersion
<1>2. PICK n : n = Len(versions)
  OBVIOUS
<1>3. /\ RowTypes /\ LockTypes /\ LocalTypes /\ n \in Nat /\ DOMAIN versions = 1..n
      /\ \A v \in 1..n : versions[v].number \in Nat
  BY <1>2, TypesLemma, TablesLemma DEF IndInv, VersionRows
<1>4. PICK t \in [id : Nat, number : Nat] :
         /\ target' = [target EXCEPT ![p] = t]
         /\ \/ t.id = 0 /\ t.number = Count(n, o) + 1
            \/ t.id \in 1..n /\ versions[t.id].object = o /\ ~Active(t.id)
  <2>1. CASE target' = [target EXCEPT ![p] = [id |-> 0, number |-> NextVersionNumber(o)]]
    <3>1. NextVersionNumber(o) = Count(n, o) + 1 /\ Count(n, o) \in Nat
      BY <1>2, <1>3, NextNumberLemma, CountType
    <3> DEFINE t == [id |-> 0, number |-> NextVersionNumber(o)]
    <3>2. t \in [id : Nat, number : Nat] /\ t.id = 0 /\ t.number = Count(n, o) + 1
      BY <3>1
    <3> QED BY <2>1, <3>2
  <2>2. ASSUME NEW v \in Reusable(o),
               target' = [target EXCEPT ![p] = [id |-> v, number |-> versions[v].number]]
        PROVE  \E t \in [id : Nat, number : Nat] :
                  /\ target' = [target EXCEPT ![p] = t]
                  /\ t.id \in 1..n /\ versions[t.id].object = o /\ ~Active(t.id)
    <3>1. v \in 1..n /\ v \in Nat /\ versions[v].object = o /\ versions[v].number \in Nat
      BY <1>3 DEF Reusable
    <3>2. ~Active(v)
      BY <1>3, TablesLemma DEF Reusable, Active
    <3> DEFINE t == [id |-> v, number |-> versions[v].number]
    <3>3. t \in [id : Nat, number : Nat] /\ t.id = v
      BY <3>1
    <3> QED BY <2>2, <3>1, <3>2, <3>3
  <2> QED BY <1>1, <2>1, <2>2 DEF ChooseVersion, ObjectAsked
<1>5. /\ pc[p] = "version" /\ pc' = [pc EXCEPT ![p] = "reserve"]
      /\ ask' = ask /\ round' = round /\ inTransaction' = inTransaction /\ myRun' = myRun
      /\ result' = result /\ objectLock' = objectLock /\ keyLock' = keyLock
      /\ versions' = versions /\ runs' = runs /\ context' = context /\ operation' = operation
      /\ UNCHANGED <<rows, crashes>>
  BY DEF ChooseVersion, Goto, rows, locks
<1>6. "reserve" \in Places /\ ask[p] \in Requests
  BY <1>5, AskedLemma DEF Places
<1>7. LocalTypes'
  BY <1>3, <1>4, <1>5, <1>6 DEF LocalTypes
<1>8. /\ \A x \in Proc \ {p} : Same(x)
      /\ pc'[p] = "reserve" /\ target'[p] = t
  BY <1>3, <1>4, <1>5 DEF LocalTypes, Same
<1>9. CallerInv(p)'
  <2>1. /\ result[p] = "none" /\ round[p] = 1
        /\ context[k] = [object |-> o, assembled |-> TRUE]
    BY <1>1, <1>5 DEF IndInv, CallerInv
  <2>2. ask'[p].key = k /\ ObjectAsked(p)' = o
    BY <1>1, <1>5 DEF ObjectAsked
  <2>3. Chosen(p)'
    <3>1. /\ Count(n, o)' = Count(n, o) /\ Active(t.id)' = Active(t.id)
          /\ n = Len(versions')
      BY <1>2, <1>5 DEF Count, Active
    <3>2. \/ t.id = 0 /\ t.number = Count(Len(versions), ObjectAsked(p))' + 1
          \/ t.id \in 1..Len(versions') /\ versions'[t.id].object = o /\ ~Active(t.id)'
      BY <1>2, <1>4, <1>5, <2>2, <3>1 DEF Count
    <3> QED BY <1>8, <2>2, <3>2 DEF Chosen, Active
  <2> QED BY <1>5, <1>6, <1>8, <2>1, <2>2, <2>3 DEF CallerInv, Requests
<1>10. Locks' /\ LockTypes'
  <2>1. Locking(p)' /\ ~Reserving(p)'
    BY <1>8 DEF Locking, Reserving
  <2>2. objectLock[o] = p
    BY <1>1, <1>5 DEF IndInv, Locks, Locking
  <2>3. objectLock' = [objectLock EXCEPT ![o] = p]
    BY <1>3, <1>5, <2>2 DEF LockTypes
  <2> QED BY <1>1, <1>5, <1>8, <2>1, <2>2, <2>3, TakeLemma
<1> QED BY <1>5, <1>7, <1>8, <1>9, <1>10, LockingStep

LEMMA ReserveRunStep ==
    ASSUME IndInv, NEW p \in Proc, ReserveRun(p)
    PROVE  IndInv'
<1>1. PICK k \in Key, o \in Object : k = ask[p].key /\ o = ObjectAsked(p)
  BY AskedLemma DEF ReserveRun
<1>2. /\ pc[p] = "reserve" /\ keyLock[k] = NoOne /\ ask' = ask /\ myRun' = myRun
      /\ versions' = versions /\ runs' = runs /\ context' = context /\ operation' = operation
      /\ UNCHANGED <<rows, crashes>>
  BY <1>1 DEF ReserveRun, rows
<1>3. /\ LocalTypes /\ LockTypes /\ ask[p] \in Requests
      /\ "commit" \in Places /\ "preflight" \in Places
      /\ 2 \in 0..MaxOwnershipRetries /\ NoTarget \in [id : Nat, number : Nat]
  BY <1>2, LocalsLemma, TypesLemma, AskedLemma DEF IndInv, Places, MaxOwnershipRetries, NoTarget
<1>4. /\ result[p] = "none" /\ round[p] = 1 /\ Chosen(p)
      /\ context[k] = [object |-> o, assembled |-> TRUE]
  BY <1>1, <1>2 DEF IndInv, CallerInv
<1>5. ask'[p].key = k /\ ObjectAsked(p)' = o
  BY <1>1, <1>2 DEF ObjectAsked
<1>6. CASE operation[k] = NoOne
  <2>1. /\ keyLock' = [keyLock EXCEPT ![k] = p] /\ objectLock' = objectLock
        /\ pc' = [pc EXCEPT ![p] = "commit"] /\ round' = round /\ target' = target
        /\ inTransaction' = inTransaction /\ result' = result
    BY <1>1, <1>6 DEF ReserveRun, Goto
  <2>2. LocalTypes'
    BY <1>2, <1>3, <2>1 DEF LocalTypes
  <2>3. /\ \A x \in Proc \ {p} : Same(x)
        /\ pc'[p] = "commit"
    BY <1>2, <1>3, <2>1 DEF LocalTypes, Same
  <2>4. Chosen(p)'
    BY <1>2, <1>4, <2>1 DEF Chosen, Count, Active, ObjectAsked
  <2>5. CallerInv(p)'
    BY <1>2, <1>3, <1>4, <1>5, <2>1, <2>3, <2>4 DEF CallerInv, Requests
  <2>6. Locks' /\ LockTypes'
    <3>1. Locking(p)' /\ Reserving(p)'
      BY <2>3 DEF Locking, Reserving
    <3>2. objectLock[o] = p
      BY <1>1, <1>2 DEF IndInv, Locks, Locking
    <3>3. objectLock' = [objectLock EXCEPT ![o] = p]
      BY <1>3, <2>1, <3>2 DEF LockTypes
    <3> QED BY <1>1, <1>2, <1>6, <2>1, <2>3, <3>1, <3>2, <3>3, TakeLemma
  <2> QED BY <1>2, <2>2, <2>3, <2>5, <2>6, LockingStep
<1>7. CASE operation[k] # NoOne
  <2>1. /\ Unlock(p) /\ target' = [target EXCEPT ![p] = NoTarget]
        /\ inTransaction' = [inTransaction EXCEPT ![p] = FALSE]
        /\ round' = [round EXCEPT ![p] = 2] /\ pc' = [pc EXCEPT ![p] = "preflight"]
        /\ result' = result
    BY <1>1, <1>4, <1>7, TryAgainLemma DEF ReserveRun, End
  <2>2. LocalTypes'
    BY <1>2, <1>3, <2>1 DEF LocalTypes
  <2>3. /\ \A x \in Proc \ {p} : Same(x)
        /\ pc'[p] = "preflight" /\ round'[p] = 2
    BY <1>2, <1>3, <2>1 DEF LocalTypes, Same
  <2>4. CallerInv(p)'
    BY <1>2, <1>3, <1>4, <1>5, <1>7, <2>1, <2>3 DEF CallerInv, Requests
  <2>5. Locks' /\ LockTypes'
    <3>1. ~Locking(p)'
      BY <2>3 DEF Locking
    <3> QED BY <1>2, <2>1, <2>3, <3>1, UnlockLemma
  <2> QED BY <1>2, <2>2, <2>3, <2>4, <2>5, LockingStep
<1> QED BY <1>6, <1>7

-------------------------------------------------------------------------------
\* Phase A is committed.

\* A version of an object is one more of its versions, and of no other's.
LEMMA CountAdded ==
    ASSUME NEW i \in Nat, NEW o, \A w \in 1..i : versions'[w].object = versions[w].object
    PROVE  Count(i + 1, o)' = IF versions'[i + 1].object = o THEN Count(i, o) + 1 ELSE Count(i, o)
<1> DEFINE S == {w \in 1..i : versions[w].object = o}
<1>1. IsFiniteSet(S) /\ Count(i, o) = Cardinality(S) /\ i + 1 \notin S
  <2>1. IsFiniteSet(S)
    BY CountType
  <2>2. Count(i, o) = Cardinality(S)
    BY DEF Count
  <2>3. i + 1 \notin S
    OBVIOUS
  <2> QED BY <2>1, <2>2, <2>3
<1>2. {w \in 1..i + 1 : versions'[w].object = o} =
          IF versions'[i + 1].object = o THEN S \union {i + 1} ELSE S
  OBVIOUS
<1> HIDE DEF S
<1>3. Cardinality(S \union {i + 1}) = Cardinality(S) + 1
  BY <1>1, FS_AddElement
<1> QED BY <1>1, <1>2, <1>3 DEF Count

\* A new version takes the number that Phase A has chosen for it.
LEMMA NewVersionLemma ==
    ASSUME IndInv, NEW n, n = Len(versions), NEW v \in VersionRows,
           versions' = Append(versions, v), v.number = Count(n, v.object) + 1
    PROVE  Numbers'
<1>1. /\ n \in Nat /\ Len(versions') = n + 1 /\ versions'[n + 1] = v
      /\ \A w \in 1..n : versions'[w] = versions[w]
      /\ \A w \in 1..n : versions[w] \in VersionRows
  <2>1. versions \in Seq(VersionRows)
    BY TypesLemma DEF IndInv, RowTypes
  <2> QED BY <2>1, RowAdded, RowsOf
<1>2. \A i \in 0..n : \A o : Count(i, o)' = Count(i, o)
  BY <1>1, CountSame
<1>3. \A o : Count(n + 1, o)' = IF v.object = o THEN Count(n, o) + 1 ELSE Count(n, o)
  BY <1>1, CountAdded
<1>4. ASSUME NEW w \in 1..n + 1, NEW o, o = versions'[w].object
      PROVE  versions'[w].number = Count(w, o)'
  <2>1. CASE w = n + 1
    BY <1>1, <1>3, <1>4, <2>1
  <2>2. CASE w \in 1..n
    <3>1. versions[w].number = Count(w, o)
      BY <1>1, <1>4, <2>2 DEF IndInv, Numbers
    <3> QED BY <1>1, <1>2, <2>2, <3>1
  <2> QED BY <1>1, <2>1, <2>2
<1>5. \A w \in 1..n + 1 : versions'[w].number = Count(w, versions[w].object)'
  BY <1>4 DEF Count
<1>6. ASSUME NEW o \in Object
      PROVE  \/ Count(n + 1, o)' = 0
             \/ \E w \in 1..n + 1 : versions'[w].object = o /\ versions'[w].number = Count(n + 1, o)'
  <2>1. CASE v.object = o
    <3>1. versions'[n + 1].object = o /\ versions'[n + 1].number = Count(n + 1, o)'
      BY <1>1, <1>3, <2>1
    <3> QED BY <1>1, <3>1
  <2>2. CASE v.object # o
    <3>1. Count(n + 1, o)' = Count(n, o)
      BY <1>3, <2>2
    <3>2. \/ Count(n, o) = 0
          \/ \E w \in 1..n : versions[w].object = o /\ versions[w].number = Count(n, o)
      BY DEF IndInv, Numbers
    <3>3. \A w \in 1..n : w \in 1..n + 1 /\ versions'[w] = versions[w]
      BY <1>1
    <3> QED BY <3>1, <3>2, <3>3
  <2> QED BY <2>1, <2>2
<1>7. \A o : Count(Len(versions), o)' = Count(n + 1, o)'
  BY <1>1 DEF Count
<1> QED BY <1>1, <1>5, <1>6, <1>7 DEF Numbers

LEMMA CommitRunStep ==
    ASSUME IndInv, NEW p \in Proc, CommitRun(p)
    PROVE  IndInv'
<1>1. PICK k \in Key, o \in Object : k = ask[p].key /\ o = ObjectAsked(p)
  BY AskedLemma DEF CommitRun
<1>2. PICK n, m, t : n = Len(versions) /\ m = Len(runs) /\ t = target[p]
  OBVIOUS
<1>3. /\ LocalTypes /\ RowTypes /\ LockTypes /\ n \in Nat /\ m \in Nat
      /\ ask[p] \in Requests /\ ask[p].identity \in Identity /\ ask[p].identity.object = o
      /\ t \in [id : Nat, number : Nat]
      /\ "snapshot" \in Places /\ NoTarget \in [id : Nat, number : Nat]
      /\ \A r \in 1..m : runs[r] \in RunRows
      /\ \A w \in 1..n : versions[w] \in VersionRows
  <2>1. LocalTypes /\ RowTypes /\ LockTypes
    BY TypesLemma DEF IndInv
  <2>2. t \in [id : Nat, number : Nat]
    BY <1>2, <2>1 DEF LocalTypes
  <2>3. ask[p] \in Requests /\ ask[p].identity \in Identity /\ ask[p].identity.object = o
    BY <1>1, AskedLemma DEF CommitRun, ObjectAsked
  <2> QED BY <1>2, <2>1, <2>2, <2>3, TablesLemma DEF Places, NoTarget
<1>4. /\ pc[p] = "commit" /\ Chosen(p)
      /\ result[p] = "none" /\ round[p] <= 2
      /\ context[k] = [object |-> o, assembled |-> TRUE]
      /\ keyLock[k] = p /\ objectLock[o] = p /\ operation[k] = NoOne
  <2>1. pc[p] = "commit" /\ p # NoOne
    BY ExecutionAssumption DEF CommitRun
  <2>2. keyLock[k] = p /\ objectLock[o] = p
    BY <1>1, <2>1 DEF IndInv, Locks, Locking, Reserving
  <2> QED BY <1>1, <2>1, <2>2 DEF IndInv, Locks, CallerInv
<1>5. PICK v : v = IF t.id = 0 THEN n + 1 ELSE t.id
  OBVIOUS
<1>6. PICK e \in RunRows : /\ e.key = k /\ e.object = o /\ e.version = v /\ e.status = "ACTIVE"
                           /\ runs' = Append(runs, e)
  <2> DEFINE e == [key |-> k, object |-> o, version |-> v, status |-> "ACTIVE"]
  <2>1. v \in Nat \ {0}
    BY <1>3, <1>5
  <2>2. e \in RunRows /\ e.key = k /\ e.object = o /\ e.version = v /\ e.status = "ACTIVE"
    BY <2>1 DEF RunRows
  <2>3. runs' = Append(runs, e)
    BY <1>1, <1>2, <1>3, <1>5 DEF CommitRun
  <2> QED BY <2>2, <2>3
<1>7. PICK h \in [hash : Identity, run : Nat] :
         h.run = m + 1 /\ h.hash.object = o /\ operation' = [operation EXCEPT ![k] = h]
  <2> DEFINE h == [hash |-> ask[p].identity, run |-> m + 1]
  <2>1. h \in [hash : Identity, run : Nat] /\ h.run = m + 1 /\ h.hash.object = o
    BY <1>3
  <2>2. operation' = [operation EXCEPT ![k] = h]
    BY <1>1, <1>2 DEF CommitRun
  <2> QED BY <2>1, <2>2
<1>8. /\ myRun' = [myRun EXCEPT ![p] = m + 1] /\ target' = [target EXCEPT ![p] = NoTarget]
      /\ inTransaction' = [inTransaction EXCEPT ![p] = FALSE] /\ pc' = [pc EXCEPT ![p] = "snapshot"]
      /\ context' = context /\ ask' = ask /\ round' = round /\ result' = result
      /\ crashes' = crashes /\ Unlock(p)
  BY <1>2 DEF CommitRun, End, Goto
<1>9. /\ runs' \in Seq(RunRows) /\ Len(runs') = m + 1 /\ runs'[m + 1] = e
      /\ \A r \in 1..m : runs'[r] = runs[r]
  BY <1>2, <1>3, <1>6, RowAdded DEF RowTypes
\* The version is new, or was there and had no run under way.
<1>10. /\ versions' \in Seq(VersionRows) /\ Numbers'
       /\ Len(versions') \in Nat /\ n <= Len(versions') /\ v \in 1..Len(versions')
       /\ \A w \in 1..n : versions'[w] = versions[w]
       /\ versions'[v].object = o
       /\ \A o2 \in Object \ {o} : Count(Len(versions), o2)' = Count(n, o2)
       /\ \A r \in 1..m : runs[r].version = v => runs[r].status # "ACTIVE"
  <2>1. CASE t.id = 0 /\ t.number = Count(n, o) + 1
    <3>1. Count(n, o) \in Nat
      BY <1>3, CountType
    <3>2. PICK d \in VersionRows : /\ d.object = o /\ d.number = Count(n, o) + 1
                                   /\ versions' = Append(versions, d)
      <4> DEFINE d == [object |-> o, number |-> t.number, status |-> "ELIGIBLE_PENDING", content |-> 0]
      <4>1. d \in VersionRows /\ d.object = o /\ d.number = Count(n, o) + 1
        BY <2>1, <3>1 DEF VersionRows
      <4>2. versions' = Append(versions, d)
        BY <1>2, <1>3, <2>1 DEF CommitRun
      <4> QED BY <4>1, <4>2
    <3>3. /\ versions' \in Seq(VersionRows) /\ Len(versions') = n + 1 /\ versions'[n + 1] = d
          /\ \A w \in 1..n : versions'[w] = versions[w]
      BY <1>2, <1>3, <3>2, RowAdded DEF RowTypes
    <3>4. Numbers'
      BY <1>2, <3>2, NewVersionLemma
    <3>5. \A o2 \in Object \ {o} : Count(n + 1, o2)' = Count(n, o2)
      BY <1>3, <3>2, <3>3, CountAdded
    <3>6. v = n + 1
      BY <1>5, <2>1
    <3>7. \A r \in 1..m : runs[r].version # v
      <4>1. \A r \in 1..m : runs[r].version \in 1..n
        BY <1>2 DEF IndInv, Rows
      <4>2. v \notin 1..n
        BY <1>3, <3>6
      <4> QED BY <4>1, <4>2
    <3>8. \A o2 \in Object \ {o} : Count(Len(versions), o2)' = Count(n, o2)
      BY <3>3, <3>5 DEF Count
    <3> QED BY <1>3, <3>2, <3>3, <3>4, <3>6, <3>7, <3>8
  <2>2. CASE t.id \in 1..n /\ versions[t.id].object = o /\ ~Active(t.id)
    <3>1. versions' = versions /\ v = t.id
      BY <1>2, <1>3, <1>5, <2>2 DEF CommitRun
    <3>2. Numbers'
      BY <3>1, NumbersSame DEF SameVersions
    <3>3. \A o2 : Count(Len(versions), o2)' = Count(n, o2)
      BY <1>2, <3>1 DEF Count
    <3>4. \A r \in 1..m : runs[r].version = v => runs[r].status # "ACTIVE"
      BY <1>2, <2>2, <3>1 DEF Active
    <3>5. versions' \in Seq(VersionRows)
      BY <1>3, <3>1 DEF RowTypes
    <3>6. /\ Len(versions') \in Nat /\ n <= Len(versions') /\ v \in 1..Len(versions')
          /\ \A w \in 1..n : versions'[w] = versions[w]
          /\ versions'[v].object = o
      BY <1>2, <1>3, <2>2, <3>1
    <3> QED BY <3>2, <3>3, <3>4, <3>5, <3>6
  <2> QED BY <1>1, <1>2, <1>4, <2>1, <2>2 DEF Chosen
<1>11. /\ LocalTypes' /\ \A x \in Proc \ {p} : Same(x)
       /\ pc'[p] = "snapshot" /\ myRun'[p] = m + 1
  <2>1. m + 1 \in Nat
    BY <1>3
  <2>2. LocalTypes'
    BY <1>3, <1>8, <2>1 DEF LocalTypes
  <2> QED BY <1>3, <1>8, <2>2 DEF LocalTypes, Same
<1>12. CallerInv(p)'
  <2>1. m + 1 \in 1..Len(runs')
    BY <1>3, <1>9
  <2> QED BY <1>3, <1>4, <1>8, <1>11, <2>1 DEF CallerInv, Requests
<1>13. /\ RowTypes' /\ operation'[k] = h /\ h # NoOne
       /\ \A i \in Key \ {k} : operation'[i] = operation[i]
  <2>1. h # NoOne
    BY ExecutionAssumption
  <2> QED BY <1>3, <1>7, <1>8, <1>9, <1>10, <2>1 DEF RowTypes
<1>14. Locks' /\ LockTypes'
  <2>1. \A i \in Key : keyLock[i] # p => operation'[i] = operation[i]
    BY <1>4, <1>13
  <2>2. ~Locking(p)'
    BY <1>11 DEF Locking
  <2> QED BY <1>8, <1>11, <2>1, <2>2, UnlockLemma
<1>15. RowsGrow(p)
  <2>1. ASSUME NEW o2 \in Object \ {o} PROVE Untouched(o2)
    <3>1. Count(Len(versions), o2)' = Count(Len(versions), o2)
      BY <1>2, <1>10, <2>1
    <3>2. ASSUME NEW w \in 1..n, versions[w].object = o2, Active(w)' PROVE Active(w)
      <4>1. PICK r \in 1..m + 1 : runs'[r].version = w /\ runs'[r].status = "ACTIVE"
        BY <1>9, <3>2 DEF Active
      <4>2. r # m + 1
        BY <1>6, <1>9, <1>10, <2>1, <3>2, <4>1
      <4>3. r \in 1..m
        BY <1>3, <4>1, <4>2
      <4> QED BY <1>2, <1>9, <4>1, <4>3 DEF Active
    <3>3. \A w \in 1..n : w \in 1..Len(versions')
      BY <1>3, <1>10
    <3> QED BY <1>2, <1>10, <3>1, <3>2, <3>3 DEF Untouched
  <2>2. \A o2 \in Object : objectLock[o2] # NoOne /\ objectLock[o2] # p => Untouched(o2)
    BY <1>4, <2>1
  <2>3. Len(runs) \in Nat /\ Len(runs') \in Nat /\ Len(runs) <= Len(runs')
    BY <1>2, <1>3, <1>9
  <2> QED BY <1>4, <1>8, <1>13, <2>2, <2>3 DEF RowsGrow
<1>16. Rows'
  <2>1. Rows /\ \A r \in 1..m : runs[r].key \in Key \ {k}
    BY <1>2, <1>3, <1>4 DEF IndInv, Rows, RunRows
  <2>2. ASSUME NEW r \in 1..m + 1
        PROVE  /\ operation'[runs'[r].key] # NoOne /\ operation'[runs'[r].key].run = r
               /\ runs'[r].version \in 1..Len(versions')
               /\ versions'[runs'[r].version].object = runs'[r].object
               /\ operation'[runs'[r].key].hash.object = runs'[r].object
               /\ context'[runs'[r].key] = [object |-> runs'[r].object, assembled |-> TRUE]
    <3>1. CASE r = m + 1
      BY <1>4, <1>6, <1>7, <1>8, <1>9, <1>10, <1>13, <3>1
    <3>2. CASE r \in 1..m
      <4>1. runs'[r] = runs[r] /\ operation'[runs[r].key] = operation[runs[r].key]
        BY <1>9, <1>13, <2>1, <3>2
      <4>2. /\ operation[runs[r].key] # NoOne /\ operation[runs[r].key].run = r
            /\ runs[r].version \in 1..n
            /\ versions[runs[r].version].object = runs[r].object
            /\ operation[runs[r].key].hash.object = runs[r].object
            /\ context[runs[r].key] = [object |-> runs[r].object, assembled |-> TRUE]
        BY <1>2, <2>1, <3>2 DEF Rows
      <4>3. versions'[runs[r].version] = versions[runs[r].version] /\ runs[r].version \in 1..Len(versions')
        BY <1>3, <1>10, <4>2
      <4> QED BY <1>8, <4>1, <4>2, <4>3
    <3> QED BY <1>3, <3>1, <3>2
  <2>3. ASSUME NEW i \in Key, operation'[i] # NoOne
        PROVE  /\ operation'[i].run # Rejected =>
                     operation'[i].run \in 1..m + 1 /\ runs'[operation'[i].run].key = i
               /\ context'[i] # NoOne /\ context'[i].object = operation'[i].hash.object
    <3>1. CASE i = k
      <4>1. [object |-> o, assembled |-> TRUE] \in [object : Object, assembled : BOOLEAN]
        OBVIOUS
      <4>2. context[k] # NoOne
        BY <1>4, <4>1, ExecutionAssumption
      <4>3. operation'[k].run \in 1..m + 1 /\ runs'[operation'[k].run].key = k
        BY <1>3, <1>6, <1>7, <1>9, <1>13
      <4>4. context[k].object = o
        BY <1>4
      <4> QED BY <1>7, <1>8, <1>13, <3>1, <4>2, <4>3, <4>4
    <3>2. CASE i # k
      <4>1. operation'[i] = operation[i] /\ operation[i] # NoOne
        BY <1>13, <2>3, <3>2
      <4>2. /\ operation[i].run # Rejected => operation[i].run \in 1..m /\ runs[operation[i].run].key = i
            /\ context[i] # NoOne /\ context[i].object = operation[i].hash.object
        BY <1>2, <2>1, <4>1 DEF Rows
      <4>3. \A r \in 1..m : r \in 1..m + 1
        BY <1>3
      <4> QED BY <1>8, <1>9, <4>1, <4>2, <4>3
    <3> QED BY <3>1, <3>2
  <2>4. ASSUME NEW r \in 1..m + 1, NEW s \in 1..m + 1, runs'[r].version = runs'[s].version,
               runs'[r].status = "ACTIVE", runs'[s].status = "ACTIVE"
        PROVE  r = s
    <3>1. CASE r \in 1..m /\ s \in 1..m
      BY <1>2, <1>9, <2>1, <2>4, <3>1 DEF Rows
    <3>2. ~(r = m + 1 /\ s \in 1..m) /\ ~(s = m + 1 /\ r \in 1..m)
      BY <1>6, <1>9, <1>10, <2>4
    <3> QED BY <1>3, <3>1, <3>2
  <2> QED BY <1>9, <2>2, <2>3, <2>4 DEF Rows
<1>17. TypeOK' /\ \A x \in Proc : CallerInv(x)'
  <2>1. crashes' \in 0..MaxCrashes
    BY <1>8, TypesLemma DEF IndInv
  <2> QED BY <1>11, <1>12, <1>13, <1>14, <1>15, <2>1, TypesStep, CallersLemma
<1> QED BY <1>10, <1>14, <1>16, <1>17 DEF IndInv

-------------------------------------------------------------------------------
\* What ends a run, or takes a version out of reach.

LEMMA VersionUpdate ==
    ASSUME IndInv, NEW v \in 1..Len(versions), NEW e \in VersionRows,
           e.object = versions[v].object, e.number = versions[v].number,
           versions' = [versions EXCEPT ![v] = e]
    PROVE  versions' \in Seq(VersionRows) /\ SameVersions
<1>1. versions \in Seq(VersionRows)
  BY TypesLemma DEF IndInv, RowTypes
<1>2. /\ versions' \in Seq(VersionRows) /\ Len(versions') = Len(versions)
      /\ versions'[v] = e /\ \A i \in 1..Len(versions) : i # v => versions'[i] = versions[i]
  BY <1>1, RowChanged
<1> QED BY <1>2 DEF SameVersions

LEMMA RunUpdate ==
    ASSUME IndInv, NEW r \in 1..Len(runs), NEW outcome \in {"SUCCEEDED", "FAILED"},
           runs' = [runs EXCEPT ![r].status = outcome]
    PROVE  runs' \in Seq(RunRows) /\ SameRuns
<1>1. runs \in Seq(RunRows) /\ runs[r] \in RunRows
  BY TypesLemma, TablesLemma DEF IndInv, RowTypes
<1>2. PICK e \in RunRows : /\ e.key = runs[r].key /\ e.object = runs[r].object
                           /\ e.version = runs[r].version /\ e.status # "ACTIVE"
                           /\ runs' = [runs EXCEPT ![r] = e]
  <2> DEFINE e == [runs[r] EXCEPT !.status = outcome]
  <2>1. e \in RunRows /\ e.status = outcome
    BY <1>1 DEF RunRows
  <2>2. e.key = runs[r].key /\ e.object = runs[r].object /\ e.version = runs[r].version
    BY <1>1 DEF RunRows
  <2>3. runs' = [runs EXCEPT ![r] = e]
    OBVIOUS
  <2> QED BY <2>1, <2>2, <2>3
<1>3. /\ runs' \in Seq(RunRows) /\ Len(runs') = Len(runs)
      /\ runs'[r] = e /\ \A i \in 1..Len(runs) : i # r => runs'[i] = runs[i]
  BY <1>1, <1>2, RowChanged
<1> QED BY <1>2, <1>3 DEF SameRuns

LEMMA PhaseBStep ==
    ASSUME IndInv, NEW p \in Proc, PhaseB(p)
    PROVE  IndInv'
<1>1. PICK r : r = myRun[p]
  OBVIOUS
<1>2. /\ pc[p] = "phaseB" /\ pc' = [pc EXCEPT ![p] = "return"]
      /\ context' = context /\ operation' = operation /\ UNCHANGED <<locks, crashes>>
      /\ ask' = ask /\ round' = round /\ target' = target /\ myRun' = myRun
      /\ inTransaction' = inTransaction
  BY DEF PhaseB, Return, Goto
<1>3. /\ r \in 1..Len(runs) /\ runs[r] \in RunRows
      /\ runs[r].version \in 1..Len(versions) /\ versions[runs[r].version] \in VersionRows
      /\ LocalTypes /\ RowTypes /\ ask[p] \in Requests /\ round[p] <= 2
  <2>1. r \in 1..Len(runs) /\ round[p] <= 2
    BY <1>1, <1>2 DEF IndInv, CallerInv
  <2>2. runs[r].version \in 1..Len(versions)
    BY <2>1 DEF IndInv, Rows
  <2> QED BY <1>2, <2>1, <2>2, TypesLemma, TablesLemma, AskedLemma DEF IndInv
<1>4. /\ versions' = versions \/ (versions' \in Seq(VersionRows) /\ SameVersions)
      /\ runs' = runs \/ (runs' \in Seq(RunRows) /\ SameRuns)
      /\ \E a \in Answers \ {"RuntimeError"} : result' = [result EXCEPT ![p] = a]
  <2>1. CASE runs' = [runs EXCEPT ![r].status = "SUCCEEDED"] /\ result' = [result EXCEPT ![p] = "SUCCEEDED"]
             /\ versions' = [versions EXCEPT ![runs[r].version].status = "DRAFT",
                                             ![runs[r].version].content = r]
    <3>1. runs' \in Seq(RunRows) /\ SameRuns
      BY <1>3, <2>1, RunUpdate
    <3>2. PICK v \in 1..Len(versions) : v = runs[r].version
      BY <1>3
    <3>3. PICK e \in VersionRows : /\ e.object = versions[v].object /\ e.number = versions[v].number
                                   /\ versions' = [versions EXCEPT ![v] = e]
      <4> DEFINE e == [[versions[v] EXCEPT !.status = "DRAFT"] EXCEPT !.content = r]
      <4>1. versions[v] \in VersionRows /\ r \in Nat /\ versions \in Seq(VersionRows)
        BY <1>3, <3>2, TablesLemma DEF RowTypes
      <4>2. e \in VersionRows /\ e.object = versions[v].object /\ e.number = versions[v].number
        BY <4>1 DEF VersionRows
      <4>3. versions' = [versions EXCEPT ![v] = e]
        BY <2>1, <3>2, <4>1
      <4> QED BY <4>2, <4>3
    <3>4. versions' \in Seq(VersionRows) /\ SameVersions
      BY <3>3, VersionUpdate
    <3>5. "SUCCEEDED" \in Answers \ {"RuntimeError"}
      BY DEF Answers
    <3> QED BY <2>1, <3>1, <3>4, <3>5
  <2>2. CASE runs' = [runs EXCEPT ![r].status = "FAILED"] /\ result' = [result EXCEPT ![p] = "FAILED"]
             /\ versions' = versions
    <3>1. runs' \in Seq(RunRows) /\ SameRuns
      BY <1>3, <2>2, RunUpdate
    <3>2. "FAILED" \in Answers \ {"RuntimeError"}
      BY DEF Answers
    <3> QED BY <2>2, <3>1, <3>2
  <2>3. ASSUME NEW a, a = IF runs[r].status = "ACTIVE" THEN "PENDING_POLL_TIMEOUT" ELSE runs[r].status,
               runs' = runs, versions' = versions, result' = [result EXCEPT ![p] = a]
        PROVE  \E b \in Answers \ {"RuntimeError"} : result' = [result EXCEPT ![p] = b]
    <3>1. a \in Answers \ {"RuntimeError"}
      BY <1>3, <2>3 DEF Answers, RunRows
    <3> QED BY <2>3, <3>1
  <2> QED BY <1>1, <2>1, <2>2, <2>3 DEF PhaseB, Finishes, Return
<1>5. SameVersions /\ SameRuns
  BY <1>4 DEF SameVersions, SameRuns
<1>6. Rows' /\ Numbers' /\ RowsGrow(p)
  BY <1>2, <1>5, UpdateLemma
<1>7. RowTypes'
  BY <1>2, <1>3, <1>4 DEF RowTypes
<1>8. PICK a \in Answers \ {"RuntimeError"} : result' = [result EXCEPT ![p] = a]
  BY <1>4
<1>9. LocalTypes'
  <2>1. "return" \in Places
    BY DEF Places
  <2> QED BY <1>2, <1>3, <1>8, <2>1 DEF LocalTypes
<1>10. /\ \A x \in Proc \ {p} : Same(x)
       /\ pc'[p] = "return" /\ result'[p] # "RuntimeError"
  BY <1>2, <1>3, <1>8 DEF LocalTypes, Same
<1>11. CallerInv(p)'
  BY <1>2, <1>3, <1>10 DEF CallerInv, Requests
<1>12. Locks' /\ LockTypes'
  <2>1. ~Locking(p) /\ ~Locking(p)'
    BY <1>2, <1>10 DEF Locking
  <2>2. \A k \in Key : keyLock[k] # NoOne => operation'[k] = NoOne
    BY <1>2 DEF IndInv, Locks
  <2> QED BY <1>2, <1>10, <2>1, <2>2, QuietLocks
<1>13. TypeOK' /\ \A x \in Proc : CallerInv(x)'
  <2>1. crashes' \in 0..MaxCrashes
    BY <1>2, TypesLemma DEF IndInv
  <2> QED BY <1>6, <1>7, <1>9, <1>10, <1>11, <1>12, <2>1, TypesStep, CallersLemma
<1> QED BY <1>6, <1>12, <1>13 DEF IndInv

\* A step that is no caller's leaves every caller what it may rely on.
LEMMA OutsideStep ==
    ASSUME IndInv, UNCHANGED <<locks, locals, crashes>>, RowTypes', Rows', Numbers', RowsGrow(NoOne),
           operation' = operation
    PROVE  IndInv'
<1>1. \A x \in Proc : Same(x)
  BY DEF locals, Same
<1>2. \A x \in Proc : CallerInv(x)'
  <2>1. \A x \in Proc : x # NoOne
    BY ExecutionAssumption
  <2> QED BY <1>1, <2>1, CallerFrame
<1>3. LockTypes' /\ LocalTypes' /\ crashes' \in 0..MaxCrashes
  BY TypesLemma DEF IndInv, LockTypes, LocalTypes, locks, locals
<1>4. Locks'
  BY DEF IndInv, Locks, Locking, Reserving, ObjectAsked, locks, locals
<1> QED BY <1>2, <1>3, <1>4, TypesStep DEF IndInv

LEMMA ExternalStep ==
    ASSUME IndInv, NEW v \in DOMAIN versions, ExternalTransition(v)
    PROVE  IndInv'
<1>1. /\ versions' = [versions EXCEPT ![v].status = "DRAFT"]
      /\ runs' = runs /\ context' = context /\ operation' = operation
      /\ UNCHANGED <<locks, locals, crashes>>
  BY DEF ExternalTransition
<1>2. RowTypes /\ v \in 1..Len(versions) /\ versions[v] \in VersionRows
  BY TypesLemma, TablesLemma DEF IndInv
<1>3. PICK e \in VersionRows : /\ e.object = versions[v].object /\ e.number = versions[v].number
                               /\ versions' = [versions EXCEPT ![v] = e]
  <2> DEFINE e == [versions[v] EXCEPT !.status = "DRAFT"]
  <2>1. e \in VersionRows /\ e.object = versions[v].object /\ e.number = versions[v].number
    BY <1>2 DEF VersionRows
  <2>2. versions' = [versions EXCEPT ![v] = e]
    BY <1>1
  <2> QED BY <2>1, <2>2
<1>4. versions' \in Seq(VersionRows) /\ SameVersions
  BY <1>2, <1>3, VersionUpdate
<1>5. RowTypes'
  BY <1>1, <1>2, <1>4 DEF RowTypes
<1>6. Rows' /\ Numbers' /\ RowsGrow(NoOne)
  <2>1. SameRuns
    BY <1>1 DEF SameRuns
  <2> QED BY <1>1, <1>4, <2>1, UpdateLemma
<1> QED BY <1>1, <1>5, <1>6, OutsideStep

-------------------------------------------------------------------------------
LEMMA NextInv == IndInv /\ [Next]_vars => IndInv'
<1> SUFFICES ASSUME IndInv, [Next]_vars PROVE IndInv'
  OBVIOUS
<1>1. ASSUME NEW p \in Proc, Request(p) \/ Step(p) \/ Crash(p) PROVE IndInv'
  <2>1. CASE Request(p)
    BY <2>1, RequestStep
  <2>2. CASE Preflight(p)
    BY <2>2, PreflightStep
  <2>3. CASE Assemble(p)
    BY <2>3, AssembleStep
  <2>4. CASE Reject(p)
    BY <2>4, RejectStep
  <2>5. CASE LockObject(p)
    BY <2>5, LockObjectStep
  <2>6. CASE ChooseVersion(p)
    BY <2>6, ChooseVersionStep
  <2>7. CASE ReserveRun(p)
    BY <2>7, ReserveRunStep
  <2>8. CASE CommitRun(p)
    BY <2>8, CommitRunStep
  <2>9. CASE Snapshot(p)
    BY <2>9, SnapshotStep
  <2>10. CASE PhaseB(p)
    BY <2>10, PhaseBStep
  <2>11. CASE Receive(p)
    BY <2>11, ReceiveStep
  <2>12. CASE Crash(p)
    BY <2>12, CrashStep
  <2> QED BY <1>1, <2>1, <2>2, <2>3, <2>4, <2>5, <2>6, <2>7, <2>8, <2>9, <2>10, <2>11, <2>12 DEF Step
<1>2. CASE UNCHANGED vars
  <2>1. UNCHANGED rows /\ UNCHANGED <<locks, locals, crashes>>
    BY <1>2 DEF vars
  <2>2. RowTypes' /\ Rows' /\ Numbers' /\ RowsGrow(NoOne)
    BY <2>1, QuietRows
  <2> QED BY <2>1, <2>2, OutsideStep DEF rows
<1>3. ASSUME NEW v \in DOMAIN versions, ExternalTransition(v) PROVE IndInv'
  BY <1>3, ExternalStep
<1> QED BY <1>1, <1>2, <1>3 DEF Next

\* The inductive invariant holds in every state of every behaviour.
THEOREM ProducerInvariance == Spec => []IndInv
<1> QED BY InitInv, NextInv, PTL DEF Spec

\* Types: every row, lock and local of a request is one the code can write.
THEOREM ProducerTypes == Spec => []TypeOK
<1>1. IndInv => TypeOK
  BY DEF IndInv
<1> QED BY <1>1, ProducerInvariance, PTL

\* AT_MOST_ONE_LOGICAL_AGENT_RUN_PER_IDEMPOTENCY_KEY: however many requests compete for a key in
\* request_producer_execution, it has the one run its reservation names, or was rejected and has none.
THEOREM ProducerOneRun == Spec => []OneRunPerKey
<1>1. IndInv => OneRunPerKey
  BY TypesLemma, TablesLemma DEF IndInv, Rows, OneRunPerKey
<1> QED BY <1>1, ProducerInvariance, PTL

\* Phase A never starts a run on a version that has one under way (CR-56), so the insertion never
\* meets uq_agent_run_target_version_active.
THEOREM ProducerOneActive == Spec => []OneActiveRunPerVersion
<1>1. IndInv => OneActiveRunPerVersion
  BY TypesLemma, TablesLemma DEF IndInv, Rows, OneActiveRunPerVersion
<1> QED BY <1>1, ProducerInvariance, PTL

\* Phase A numbers the versions of an object without a gap and without a repetition (CR-57),
\* however many of them are created at once and rolled back.
THEOREM ProducerNumbers == Spec => []VersionsAreNumbered
<1>1. IndInv => VersionsAreNumbered
  BY TypesLemma, TablesLemma DEF IndInv, Numbers, VersionsAreNumbered, Count
<1> QED BY <1>1, ProducerInvariance, PTL

\* A run works on a version of the object its request asked for, with the context assembled for
\* that object under that key (CR-63).
THEOREM ProducerObject == Spec => []RunIsAboutItsObject
<1>1. IndInv => RunIsAboutItsObject
  BY TypesLemma, TablesLemma DEF IndInv, Rows, RunIsAboutItsObject
<1> QED BY <1>1, ProducerInvariance, PTL

\* request_producer_execution never raises a RuntimeError: no path leaves a transaction open where
\* the next step refuses one (CR-37, CR-61), and a second iteration of the ownership loop is enough.
THEOREM ProducerNoRuntimeError == Spec => []NoRuntimeError
<1>1. IndInv => NoRuntimeError
  BY DEF IndInv, CallerInv, NoRuntimeError
<1> QED BY <1>1, ProducerInvariance, PTL

-------------------------------------------------------------------------------
\* The refinement of ExactlyOnce.

\* What is recorded under a key, and what a caller is being told.
RecordOf(k) ==
    IF operation[k] = NoOne THEN NoOne
    ELSE [payload |-> operation[k].hash, outcome |-> <<"run", operation[k].run>>]

ToldOf(p) ==
    IF pc[p] \in {"snapshot", "phaseB", "return"}
    THEN [key |-> ask[p].key, payload |-> ask[p].identity,
          outcome |-> CASE result[p] = "IDEMPOTENCY_CONFLICT" -> <<"conflict", 0>>
                        [] result[p] = "INVALID_CONTEXT_PACKAGE" -> <<"run", Rejected>>
                        [] OTHER -> <<"run", myRun[p]>>]
    ELSE NoOne

LEMMA MappingLemma ==
    /\ Record = [k \in Key |-> RecordOf(k)] /\ Record' = [k \in Key |-> RecordOf(k)']
    /\ Told = [p \in Proc |-> ToldOf(p)] /\ Told' = [p \in Proc |-> ToldOf(p)']
BY DEF Record, RecordOf, Told, ToldOf

\* What a caller is told depends on its own locals.
ToldSame(x) == pc'[x] = pc[x] /\ ask'[x] = ask[x] /\ result'[x] = result[x] /\ myRun'[x] = myRun[x]

LEMMA ToldLemma ==
    ASSUME NEW p \in Proc, \A x \in Proc \ {p} : ToldSame(x), NEW t, t = ToldOf(p)'
    PROVE  Told' = [Told EXCEPT ![p] = t]
<1>1. ASSUME NEW x \in Proc \ {p} PROVE ToldOf(x)' = ToldOf(x)
  BY DEF ToldOf, ToldSame
<1> QED BY <1>1, MappingLemma

LEMMA RecordedLemma ==
    ASSUME IndInv, NEW k \in Key, operation[k] # NoOne
    PROVE  /\ Record[k] # NoOne /\ Record[k].payload = operation[k].hash
           /\ Record[k].outcome = <<"run", operation[k].run>>
<1>1. operation[k] \in [hash : Identity, run : Nat]
  BY TypesLemma DEF IndInv, RowTypes
<1>2. RecordOf(k) = [payload |-> operation[k].hash, outcome |-> <<"run", operation[k].run>>]
  BY DEF RecordOf
<1>3. RecordOf(k) \in [payload : Identity, outcome : {"run"} \X Nat]
  BY <1>1, <1>2
<1>4. RecordOf(k) # NoOne
  BY <1>3, ExecutionAssumption
<1> QED BY <1>2, <1>4, MappingLemma

\* A step that decides nothing, and tells the caller nothing new.
LEMMA UnseenLemma ==
    ASSUME NEW p \in Proc, \A x \in Proc \ {p} : ToldSame(x), ToldOf(p)' = ToldOf(p),
           operation' = operation
    PROVE  [Once!OnceNext]_(Once!onceVars)
<1>1. Record' = Record
  BY DEF Record
<1>2. Told' = Told
  <2>1. \A x \in Proc : ToldOf(x)' = ToldOf(x)
    BY DEF ToldOf, ToldSame
  <2> QED BY <2>1, MappingLemma
<1> QED BY <1>1, <1>2 DEF Once!onceVars

\* A caller goes away.
LEMMA LeaveOnce ==
    ASSUME NEW p \in Proc, \A x \in Proc \ {p} : ToldSame(x), pc'[p] = "idle",
           operation' = operation
    PROVE  [Once!OnceNext]_(Once!onceVars)
<1>1. ToldOf(p)' = NoOne
  BY DEF ToldOf
<1>2. Told' = [Told EXCEPT ![p] = NoOne] /\ Record' = Record
  BY <1>1, ToldLemma DEF Record
<1> QED BY <1>2 DEF Once!Leave, Once!OnceNext

\* An answer about a key that is decided is a Repeat.
LEMMA RepeatOnce ==
    ASSUME IndInv, NEW p \in Proc, \A x \in Proc \ {p} : ToldSame(x), operation' = operation,
           NEW k \in Key, NEW h \in Identity, operation[k] # NoOne,
           NEW s, s = IF operation[k].hash = h THEN <<"run", operation[k].run>> ELSE <<"conflict", 0>>,
           ToldOf(p)' = [key |-> k, payload |-> h, outcome |-> s]
    PROVE  [Once!OnceNext]_(Once!onceVars)
<1>1. Record' = Record
  BY DEF Record
<1>2. Told' = [Told EXCEPT ![p] = [key |-> k, payload |-> h, outcome |-> s]]
  BY ToldLemma
<1>3. /\ Record[k] # NoOne
      /\ s = IF Record[k].payload = h THEN Record[k].outcome ELSE <<"conflict", 0>>
  BY RecordedLemma
<1> QED BY <1>1, <1>2, <1>3 DEF Once!Repeat, Once!Answer, Once!OnceNext

\* A conflict over the context of a key that is not decided is a refusal.
LEMMA RefuseOnce ==
    ASSUME NEW p \in Proc, \A x \in Proc \ {p} : ToldSame(x), operation' = operation,
           NEW k \in Key, NEW h \in Identity, operation[k] = NoOne,
           ToldOf(p)' = [key |-> k, payload |-> h, outcome |-> <<"conflict", 0>>]
    PROVE  [Once!OnceNext]_(Once!onceVars)
<1>1. Record' = Record
  BY DEF Record
<1>2. Told' = [Told EXCEPT ![p] = [key |-> k, payload |-> h, outcome |-> <<"conflict", 0>>]]
  BY ToldLemma
<1>3. Record[k] = NoOne
  BY MappingLemma DEF RecordOf
<1> QED BY <1>1, <1>2, <1>3 DEF Once!Refuse, Once!Answer, Once!OnceNext

\* A row of a key that was not decided decides it.
LEMMA DecideOnce ==
    ASSUME IndInv, NEW p \in Proc, \A x \in Proc \ {p} : ToldSame(x),
           NEW k \in Key, NEW h \in Identity, NEW r \in 0..Cardinality(Key), r \in Nat,
           operation[k] = NoOne,
           operation' = [operation EXCEPT ![k] = [hash |-> h, run |-> r]],
           ToldOf(p)' = [key |-> k, payload |-> h, outcome |-> <<"run", r>>]
    PROVE  [Once!OnceNext]_(Once!onceVars)
<1>1. operation \in [Key -> [hash : Identity, run : Nat] \union {NoOne}]
  BY TypesLemma DEF IndInv, RowTypes
<1>2. PICK e \in [hash : Identity, run : Nat] : e = [hash |-> h, run |-> r]
  OBVIOUS
<1>3. e # NoOne /\ e.hash = h /\ e.run = r
  BY <1>2, ExecutionAssumption
<1>4. operation'[k] = e /\ \A j \in Key \ {k} : operation'[j] = operation[j]
  BY <1>1, <1>2
<1>5. RecordOf(k)' = [payload |-> h, outcome |-> <<"run", r>>]
  BY <1>3, <1>4 DEF RecordOf
<1>6. \A j \in Key \ {k} : RecordOf(j)' = RecordOf(j)
  BY <1>4 DEF RecordOf
<1>7. /\ Record[k] = NoOne
      /\ Record' = [Record EXCEPT ![k] = [payload |-> h, outcome |-> <<"run", r>>]]
  <2>1. RecordOf(k) = NoOne
    BY DEF RecordOf
  <2> QED BY <1>5, <1>6, <2>1, MappingLemma
<1>8. Told' = [Told EXCEPT ![p] = [key |-> k, payload |-> h, outcome |-> <<"run", r>>]]
  BY ToldLemma
<1>9. <<"run", r>> \in {"run"} \X (0..Cardinality(Key))
  OBVIOUS
<1> QED BY <1>7, <1>8, <1>9 DEF Once!Decide, Once!Answer, Once!OnceNext

\* While a caller has nothing to be told.
Silent(p) == pc[p] \notin {"snapshot", "phaseB", "return"}

LEMMA SilentOnce ==
    ASSUME NEW p \in Proc, \A x \in Proc \ {p} : ToldSame(x), Silent(p), Silent(p)',
           operation' = operation
    PROVE  [Once!OnceNext]_(Once!onceVars)
<1>1. ToldOf(p) = NoOne /\ ToldOf(p)' = NoOne
  BY DEF Silent, ToldOf
<1> QED BY <1>1, UnseenLemma

LEMMA PreflightOnce ==
    ASSUME IndInv, NEW p \in Proc, Preflight(p)
    PROVE  [Once!OnceNext]_(Once!onceVars)
<1>1. PICK k \in Key, h \in Identity : k = ask[p].key /\ h = ask[p].identity
  BY AskedLemma DEF Preflight
<1>2. PICK f : f = operation[k]
  OBVIOUS
<1>3. /\ pc[p] = "preflight" /\ ask' = ask /\ operation' = operation
      /\ \/ /\ f = NoOne /\ pc' = [pc EXCEPT ![p] = "assemble"]
            /\ myRun' = myRun /\ result' = result
         \/ /\ f # NoOne /\ f.hash # h /\ pc' = [pc EXCEPT ![p] = "return"]
            /\ result' = [result EXCEPT ![p] = "IDEMPOTENCY_CONFLICT"] /\ myRun' = myRun
         \/ /\ f # NoOne /\ f.hash = h /\ f.run = Rejected /\ pc' = [pc EXCEPT ![p] = "return"]
            /\ result' = [result EXCEPT ![p] = "INVALID_CONTEXT_PACKAGE"] /\ myRun' = myRun
         \/ /\ f # NoOne /\ f.hash = h /\ pc' = [pc EXCEPT ![p] = "snapshot"]
            /\ myRun' = [myRun EXCEPT ![p] = f.run] /\ result' = result
  BY <1>1, <1>2 DEF Preflight, Return, Goto, rows
<1>4. /\ pc \in [Proc -> Places] /\ myRun \in [Proc -> Nat] /\ result \in [Proc -> Answers]
      /\ result[p] = "none"
  BY <1>3, LocalsLemma DEF LocalTypes, IndInv, CallerInv
<1>5. \A x \in Proc \ {p} : ToldSame(x)
  BY <1>3, <1>4 DEF ToldSame
<1>6. CASE f = NoOne
  <2>1. Silent(p) /\ Silent(p)'
    BY <1>3, <1>4, <1>6 DEF Silent
  <2> QED BY <1>3, <1>5, <2>1, SilentOnce
<1>7. CASE f # NoOne
  <2>1. PICK s : s = IF f.hash = h THEN <<"run", f.run>> ELSE <<"conflict", 0>>
    OBVIOUS
  <2>2. /\ ask'[p] = ask[p]
        /\ \/ pc'[p] = "return" /\ result'[p] = "IDEMPOTENCY_CONFLICT" /\ f.hash # h
           \/ pc'[p] = "return" /\ result'[p] = "INVALID_CONTEXT_PACKAGE" /\ f.hash = h /\ f.run = Rejected
           \/ pc'[p] = "snapshot" /\ result'[p] = "none" /\ f.hash = h /\ myRun'[p] = f.run
    BY <1>3, <1>4, <1>7
  <2>3. ToldOf(p)' = [key |-> k, payload |-> h, outcome |-> s]
    BY <1>1, <2>1, <2>2 DEF ToldOf
  <2> QED BY <1>2, <1>3, <1>5, <1>7, <2>1, <2>3, RepeatOnce
<1> QED BY <1>6, <1>7

LEMMA AssembleOnce ==
    ASSUME IndInv, NEW p \in Proc, Assemble(p)
    PROVE  [Once!OnceNext]_(Once!onceVars)
<1>1. PICK k \in Key, h \in Identity : k = ask[p].key /\ h = ask[p].identity
  BY AskedLemma DEF Assemble
<1>2. /\ pc[p] = "assemble" /\ ask' = ask /\ operation' = operation /\ myRun' = myRun
      /\ \/ /\ result' = result
            /\ \E l \in {"lockObject", "reject"} : pc' = [pc EXCEPT ![p] = l]
         \/ /\ context[k] # NoOne /\ context[k].object # h.object
            /\ pc' = [pc EXCEPT ![p] = "return"]
            /\ result' = [result EXCEPT ![p] = "IDEMPOTENCY_CONFLICT"]
  BY <1>1 DEF Assemble, Return, Goto
<1>3. pc \in [Proc -> Places] /\ result \in [Proc -> Answers]
  BY LocalsLemma DEF LocalTypes
<1>4. \A x \in Proc \ {p} : ToldSame(x)
  BY <1>2, <1>3 DEF ToldSame
<1>5. CASE \E l \in {"lockObject", "reject"} : pc' = [pc EXCEPT ![p] = l]
  <2>1. Silent(p) /\ Silent(p)'
    BY <1>2, <1>3, <1>5 DEF Silent
  <2> QED BY <1>2, <1>4, <2>1, SilentOnce
<1>6. CASE /\ context[k].object # h.object
           /\ pc' = [pc EXCEPT ![p] = "return"]
           /\ result' = [result EXCEPT ![p] = "IDEMPOTENCY_CONFLICT"]
  <2>1. pc'[p] = "return" /\ result'[p] = "IDEMPOTENCY_CONFLICT" /\ ask'[p] = ask[p]
    BY <1>2, <1>3, <1>6
  <2>2. ToldOf(p)' = [key |-> k, payload |-> h, outcome |-> <<"conflict", 0>>]
    BY <1>1, <2>1 DEF ToldOf
  <2>3. CASE operation[k] = NoOne
    BY <1>2, <1>4, <2>2, <2>3, RefuseOnce
  <2>4. CASE operation[k] # NoOne
    <3>1. operation[k].hash # h
      BY <1>6, <2>4 DEF IndInv, Rows
    <3>2. PICK s : /\ s = IF operation[k].hash = h THEN <<"run", operation[k].run>> ELSE <<"conflict", 0>>
                   /\ s = <<"conflict", 0>>
      BY <3>1
    <3>3. ToldOf(p)' = [key |-> k, payload |-> h, outcome |-> s]
      BY <2>2, <3>2
    <3> QED BY <1>2, <1>4, <2>4, <3>2, <3>3, RepeatOnce
  <2> QED BY <2>3, <2>4
<1> QED BY <1>2, <1>5, <1>6

LEMMA RejectOnce ==
    ASSUME IndInv, IsFiniteSet(Key), NEW p \in Proc, Reject(p)
    PROVE  [Once!OnceNext]_(Once!onceVars)
<1>1. PICK k \in Key, h \in Identity : k = ask[p].key /\ h = ask[p].identity
  BY AskedLemma DEF Reject
<1>2. /\ pc[p] = "reject" /\ ask' = ask /\ myRun' = myRun
      /\ \/ /\ operation[k] = NoOne
            /\ operation' = [operation EXCEPT ![k] = [hash |-> h, run |-> 0]]
            /\ pc' = [pc EXCEPT ![p] = "return"]
            /\ result' = [result EXCEPT ![p] = "INVALID_CONTEXT_PACKAGE"]
         \/ TryAgain(p) /\ operation' = operation
  BY <1>1 DEF Reject, Return, Goto, Rejected
<1>3. /\ pc \in [Proc -> Places] /\ result \in [Proc -> Answers] /\ round[p] = 1
  BY <1>2, LocalsLemma DEF LocalTypes, IndInv, CallerInv
<1>4. CASE TryAgain(p) /\ operation' = operation
  <2>1. pc' = [pc EXCEPT ![p] = "preflight"] /\ result' = result
    BY <1>3, <1>4, TryAgainLemma
  <2>2. /\ \A x \in Proc \ {p} : ToldSame(x)
        /\ Silent(p) /\ Silent(p)'
    BY <1>2, <1>3, <2>1 DEF ToldSame, Silent
  <2> QED BY <1>4, <2>2, SilentOnce
<1>5. CASE /\ operation[k] = NoOne
           /\ operation' = [operation EXCEPT ![k] = [hash |-> h, run |-> 0]]
           /\ pc' = [pc EXCEPT ![p] = "return"]
           /\ result' = [result EXCEPT ![p] = "INVALID_CONTEXT_PACKAGE"]
  <2>1. /\ \A x \in Proc \ {p} : ToldSame(x)
        /\ pc'[p] = "return" /\ result'[p] = "INVALID_CONTEXT_PACKAGE" /\ ask'[p] = ask[p]
    BY <1>2, <1>3, <1>5 DEF ToldSame
  <2>2. ToldOf(p)' = [key |-> k, payload |-> h, outcome |-> <<"run", 0>>]
    BY <1>1, <2>1 DEF ToldOf, Rejected
  <2>3. PICK r \in 0..Cardinality(Key) : r = 0 /\ r \in Nat
    BY FS_CardinalityType
  <2> QED BY <1>5, <2>1, <2>2, <2>3, DecideOnce
<1> QED BY <1>2, <1>4, <1>5

\* There are not more rows than keys, if each has a key of its own.
LEMMA KeysBounded ==
    ASSUME IsFiniteSet(Key), NEW m \in Nat, NEW f \in [1..m -> Key],
           \A a, b \in 1..m : f[a] = f[b] => a = b
    PROVE  m \in 0..Cardinality(Key)
<1>1. f \in Injection(1..m, Key)
  BY DEF Injection, IsInjective
<1>2. Cardinality(1..m) = m
  BY FS_Interval
<1>3. Cardinality(1..m) <= Cardinality(Key)
  BY <1>1, FS_Injection
<1>4. Cardinality(Key) \in Nat
  BY FS_CardinalityType
<1> QED BY <1>2, <1>3, <1>4

LEMMA CommitRunOnce ==
    ASSUME IndInv, IsFiniteSet(Key), NEW p \in Proc, CommitRun(p)
    PROVE  [Once!OnceNext]_(Once!onceVars)
<1>1. PICK k \in Key, h \in Identity : k = ask[p].key /\ h = ask[p].identity
  BY AskedLemma DEF CommitRun
<1>2. PICK r : r = Len(runs) + 1
  OBVIOUS
<1>3. /\ pc[p] = "commit" /\ ask' = ask /\ result' = result
      /\ operation' = [operation EXCEPT ![k] = [hash |-> h, run |-> r]]
      /\ myRun' = [myRun EXCEPT ![p] = r] /\ pc' = [pc EXCEPT ![p] = "snapshot"]
  BY <1>1, <1>2 DEF CommitRun, Goto
<1>4. /\ pc \in [Proc -> Places] /\ myRun \in [Proc -> Nat] /\ result[p] = "none"
  BY <1>3, LocalsLemma DEF LocalTypes, IndInv, CallerInv
<1>5. operation[k] = NoOne
  <2>1. keyLock[k] = p
    BY <1>1, <1>3 DEF IndInv, Locks, Reserving
  <2> QED BY <2>1, ExecutionAssumption DEF IndInv, Locks
<1>6. r \in 0..Cardinality(Key) /\ r \in Nat
  <2>1. /\ r \in Nat /\ 1..r = 1..Len(runs) \union {r} /\ r \notin 1..Len(runs)
        /\ \A i \in 1..Len(runs) : runs[i].key \in Key /\ operation[runs[i].key].run = i
                                   /\ operation[runs[i].key] # NoOne
    <3>1. Len(runs) \in Nat /\ \A i \in 1..Len(runs) : runs[i].key \in Key
      BY TypesLemma, TablesLemma DEF IndInv, RunRows
    <3>2. r \in Nat /\ 1..r = 1..Len(runs) \union {r} /\ r \notin 1..Len(runs)
      BY <1>2, <3>1
    <3>3. \A i \in 1..Len(runs) : operation[runs[i].key].run = i /\ operation[runs[i].key] # NoOne
      BY DEF IndInv, Rows
    <3> QED BY <3>1, <3>2, <3>3
  <2> DEFINE f == [i \in 1..r |-> IF i = r THEN k ELSE runs[i].key]
  <2>2. f \in [1..r -> Key]
    BY <2>1
  <2>3. ASSUME NEW a \in 1..r, NEW b \in 1..r, f[a] = f[b] PROVE a = b
    BY <1>5, <2>1, <2>3
  <2> HIDE DEF f
  <2> QED BY <2>1, <2>2, <2>3, KeysBounded
<1>7. /\ \A x \in Proc \ {p} : ToldSame(x)
      /\ pc'[p] = "snapshot" /\ result'[p] = "none" /\ ask'[p] = ask[p] /\ myRun'[p] = r
  BY <1>3, <1>4 DEF ToldSame
<1>8. ToldOf(p)' = [key |-> k, payload |-> h, outcome |-> <<"run", r>>]
  BY <1>1, <1>7 DEF ToldOf
<1> QED BY <1>3, <1>5, <1>6, <1>7, <1>8, DecideOnce

\* Phase B's answer is about the run the caller was led to.
LEMMA PhaseBOnce ==
    ASSUME IndInv, NEW p \in Proc, PhaseB(p)
    PROVE  [Once!OnceNext]_(Once!onceVars)
<1>1. PICK r : r = myRun[p]
  OBVIOUS
<1>2. /\ pc[p] = "phaseB" /\ pc' = [pc EXCEPT ![p] = "return"] /\ operation' = operation
      /\ ask' = ask /\ myRun' = myRun
      /\ \E a \in {"SUCCEEDED", "FAILED", "PENDING_POLL_TIMEOUT", runs[r].status} :
            result' = [result EXCEPT ![p] = a]
  BY <1>1 DEF PhaseB, Return, Goto
<1>3. /\ pc \in [Proc -> Places] /\ result \in [Proc -> Answers] /\ result[p] = "none"
      /\ runs[r].status \in {"ACTIVE", "SUCCEEDED", "FAILED"}
  <2>1. r \in 1..Len(runs) /\ result[p] = "none"
    BY <1>1, <1>2 DEF IndInv, CallerInv
  <2>2. runs[r] \in RunRows
    BY <2>1, TypesLemma, TablesLemma DEF IndInv
  <2> QED BY <2>1, <2>2, LocalsLemma DEF LocalTypes, RunRows
<1>4. /\ \A x \in Proc \ {p} : ToldSame(x)
      /\ pc'[p] = "return" /\ ask'[p] = ask[p] /\ myRun'[p] = myRun[p]
      /\ result'[p] \notin {"IDEMPOTENCY_CONFLICT", "INVALID_CONTEXT_PACKAGE"}
  BY <1>2, <1>3 DEF ToldSame
<1>5. ToldOf(p)' = ToldOf(p)
  BY <1>2, <1>3, <1>4 DEF ToldOf
<1> QED BY <1>2, <1>4, <1>5, UnseenLemma

\* Each step of a caller is a step of ExactlyOnce, or is not seen.
LEMMA StepOnce ==
    ASSUME IndInv, IsFiniteSet(Key), NEW p \in Proc, Request(p) \/ Step(p) \/ Crash(p)
    PROVE  [Once!OnceNext]_(Once!onceVars)
<1>1. /\ pc \in [Proc -> Places] /\ ask \in [Proc -> Requests \union {NoOne}]
      /\ result \in [Proc -> Answers] /\ myRun \in [Proc -> Nat]
  BY LocalsLemma DEF LocalTypes
<1>2. CASE Request(p)
  <2>1. /\ pc[p] = "idle" /\ \E a : ask' = [ask EXCEPT ![p] = a]
        /\ pc' = [pc EXCEPT ![p] = "preflight"] /\ myRun' = myRun /\ result' = result
        /\ operation' = operation
    BY <1>2 DEF Request, Goto, rows
  <2>2. /\ \A x \in Proc \ {p} : ToldSame(x)
        /\ Silent(p) /\ Silent(p)'
    BY <1>1, <2>1 DEF ToldSame, Silent
  <2> QED BY <2>1, <2>2, SilentOnce
<1>3. CASE Preflight(p)
  BY <1>3, PreflightOnce
<1>4. CASE Assemble(p)
  BY <1>4, AssembleOnce
<1>5. CASE Reject(p)
  BY <1>5, RejectOnce
<1>6. CASE LockObject(p) \/ ChooseVersion(p)
  <2>1. /\ pc[p] \in {"lockObject", "version"} /\ ask' = ask /\ myRun' = myRun /\ result' = result
        /\ operation' = operation
        /\ pc' = [pc EXCEPT ![p] = "version"] \/ pc' = [pc EXCEPT ![p] = "reserve"]
    BY <1>6 DEF LockObject, ChooseVersion, Goto, rows
  <2>2. /\ \A x \in Proc \ {p} : ToldSame(x)
        /\ Silent(p) /\ Silent(p)'
    BY <1>1, <2>1 DEF ToldSame, Silent
  <2> QED BY <2>1, <2>2, SilentOnce
<1>7. CASE ReserveRun(p)
  <2>1. pc[p] = "reserve" /\ round[p] = 1
    BY <1>7 DEF ReserveRun, IndInv, CallerInv
  <2>2. /\ ask' = ask /\ myRun' = myRun /\ operation' = operation
        /\ \/ pc' = [pc EXCEPT ![p] = "commit"] /\ result' = result
           \/ TryAgain(p)
    BY <1>7 DEF ReserveRun, Goto, rows
  <2>3. result' = result /\ \E l \in {"commit", "preflight"} : pc' = [pc EXCEPT ![p] = l]
    BY <2>1, <2>2, TryAgainLemma
  <2>4. /\ \A x \in Proc \ {p} : ToldSame(x)
        /\ Silent(p) /\ Silent(p)'
    BY <1>1, <2>1, <2>2, <2>3 DEF ToldSame, Silent
  <2> QED BY <2>2, <2>4, SilentOnce
<1>8. CASE CommitRun(p)
  BY <1>8, CommitRunOnce
<1>9. CASE Snapshot(p)
  <2>1. /\ pc[p] = "snapshot" /\ ask' = ask /\ myRun' = myRun /\ result' = result
        /\ operation' = operation /\ pc' = [pc EXCEPT ![p] = "phaseB"]
    BY <1>9 DEF Snapshot, Goto, rows
  <2>2. \A x \in Proc \ {p} : ToldSame(x)
    BY <1>1, <2>1 DEF ToldSame
  <2>3. ToldOf(p)' = ToldOf(p)
    BY <1>1, <2>1 DEF ToldOf
  <2> QED BY <2>1, <2>2, <2>3, UnseenLemma
<1>10. CASE PhaseB(p)
  BY <1>10, PhaseBOnce
<1>11. CASE Receive(p) \/ Crash(p)
  <2>1. Leave(p) /\ operation' = operation
    BY <1>11 DEF Receive, Crash, rows
  <2>2. /\ \A x \in Proc \ {p} : ToldSame(x)
        /\ pc'[p] = "idle"
    BY <1>1, <2>1 DEF Leave, Goto, ToldSame
  <2> QED BY <2>1, <2>2, LeaveOnce
<1> QED BY <1>2, <1>3, <1>4, <1>5, <1>6, <1>7, <1>8, <1>9, <1>10, <1>11 DEF Step

\* request_producer_execution implements ExactlyOnce: the first run, or rejection, committed under
\* a key is the answer to everyone who repeats the request, crashes or not; another configuration
\* under the key, or another object's context, is told of the conflict.  (A key is a PostgreSQL
\* text, of at most 1 GB, so the keys are finitely many.)
THEOREM ProducerExactlyOnce ==
    ASSUME IsFiniteSet(Key)
    PROVE  Spec => ExactlyOnceSpec
<1>1. Init => Once!OnceInit
  <2> SUFFICES ASSUME Init PROVE Once!OnceInit
    OBVIOUS
  <2>1. /\ \A k \in Key : RecordOf(k) = NoOne
        /\ \A p \in Proc : ToldOf(p) = NoOne
    BY DEF Init, RecordOf, ToldOf
  <2> QED BY <2>1, MappingLemma DEF Once!OnceInit
<1>2. IndInv /\ [Next]_vars => [Once!OnceNext]_(Once!onceVars)
  <2> SUFFICES ASSUME IndInv, [Next]_vars PROVE [Once!OnceNext]_(Once!onceVars)
    OBVIOUS
  <2>1. ASSUME UNCHANGED vars PROVE UNCHANGED <<Record, Told>>
    <3>1. operation' = operation /\ pc' = pc /\ ask' = ask /\ result' = result /\ myRun' = myRun
      BY <2>1 DEF vars, rows, locals
    <3> QED BY <3>1 DEF Record, Told
  <2>2. ASSUME NEW v \in DOMAIN versions, ExternalTransition(v) PROVE UNCHANGED <<Record, Told>>
    <3>1. operation' = operation /\ pc' = pc /\ ask' = ask /\ result' = result /\ myRun' = myRun
      BY <2>2 DEF ExternalTransition, locals
    <3> QED BY <3>1 DEF Record, Told
  <2> QED BY <2>1, <2>2, StepOnce DEF Next, Once!onceVars
<1> QED BY <1>1, <1>2, ProducerInvariance, PTL DEF Spec, ExactlyOnceSpec, Once!OnceSpec
================================================================================
