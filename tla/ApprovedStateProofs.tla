------------------------- MODULE ApprovedStateProofs -------------------------
(***************************************************************************)
(* Proofs about ApprovedState, for any number of callers, objects,         *)
(* versions, keys, payloads and crashes.                                   *)
(***************************************************************************)
EXTENDS ApprovedState, SequenceFacts, TLAPS

-------------------------------------------------------------------------------
\* The inductive invariant.

Requests == [key : Key, payload : Payload]

\* Where a caller owns the reservation of its key, uncommitted.
Owns(p) == pc[p] \in {"validate", "update", "commit"}

\* The object a caller wants to approve a version of.
Target(p) == ask[p].payload.object

\* The committed rows name each other.
Rows ==
    /\ audit = 1..Len(commits)
    /\ \A i \in 1..Len(commits) :
          operation[commits[i].key] = [hash |-> commits[i].payload, commit |-> i]
    /\ \A k \in Key : operation[k] # NoOne =>
          operation[k].commit \in 1..Len(commits) /\ commits[operation[k].commit].key = k

\* A key that somebody has reserved is not decided yet, and an object that somebody has
\* updated still has the version its commit expects.
Locks ==
    /\ \A k \in Key : keyLock[k] # NoOne =>
          operation[k] = NoOne /\ Owns(keyLock[k]) /\ ask[keyLock[k]].key = k
    /\ \A p \in Proc : Owns(p) => keyLock[ask[p].key] = p
    /\ \A o \in Object : pointerLock[o] # NoOne =>
          pc[pointerLock[o]] = "commit" /\ Target(pointerLock[o]) = o
    /\ \A p \in Proc : pc[p] = "commit" =>
          pointerLock[Target(p)] = p /\ pointer[Target(p)] = ask[p].payload.expected

\* Commit j is the one of its object that came just before position i.
JustBefore(j, i, o) ==
    /\ j \in 1..i - 1 /\ commits[j].payload.object = o
    /\ \A m \in j + 1..i - 1 : commits[m].payload.object # o

\* Nothing before position i is about the object.
NoneBefore(i, o) == \A j \in 1..i - 1 : commits[j].payload.object # o

\* What the commits before position i have left approved for o.
Left(version, i, o) ==
    \/ version = Null /\ NoneBefore(i, o)
    \/ \E j \in 1..i - 1 : JustBefore(j, i, o) /\ version = commits[j].payload.version

Chain ==
    /\ \A i \in 1..Len(commits) :
          Left(commits[i].payload.expected, i, commits[i].payload.object)
    /\ \A o \in Object :
          \/ pointer[o] = NoOne /\ NoneBefore(Len(commits) + 1, o)
          \/ Left(pointer[o], Len(commits) + 1, o)

\* What one caller may rely on.
Caller(p) ==
    /\ pc[p] # "idle" => ask[p] \in Requests
    /\ pc[p] \in {"update", "commit"} => ask[p] \in Commit
    /\ pc[p] = "replay" => operation[ask[p].key] # NoOne
    /\ result[p] \in Refusals \union {NoResult, IdempotencyConflict}
                     \union ({"COMMITTED"} \X (1..Len(commits)))

IndInv == TypeOK /\ Rows /\ Locks /\ Chain /\ \A p \in Proc : Caller(p)

\* Nobody has asked for anything yet.
LEMMA InitInv == Init => IndInv
<1> SUFFICES ASSUME Init PROVE IndInv
  OBVIOUS
<1> USE ObjectsAssumption DEF Init
<1>1. TypeOK
  <2>1. commits \in Seq(Commit) /\ audit \in SUBSET Nat
    BY EmptyTable
  <2>2. pointer \in [Object -> Version \union {Null, NoOne}] /\ crashes \in 0..MaxCrashes
    OBVIOUS
  <2>3. operation \in [Key -> [hash : Payload, commit : Nat] \union {NoOne}]
    OBVIOUS
  <2>4. result \in [Proc -> {"", "COMMITTED", "STATE_CONFLICT", "INVALID_OBJECT_VERSION",
                             "IDEMPOTENCY_CONFLICT"} \X Nat]
    BY DEF NoResult
  <2> QED BY <2>1, <2>2, <2>3, <2>4 DEF TypeOK
<1>2. Len(commits) = 0
  OBVIOUS
<1>3. Rows /\ Locks /\ Chain
  BY <1>2 DEF Rows, Locks, Chain, Owns, NoneBefore
<1>4. \A p \in Proc : Caller(p)
  BY DEF Caller
<1> QED BY <1>1, <1>3, <1>4 DEF IndInv

-------------------------------------------------------------------------------
\* What a step of one caller leaves to the others.

Same(x) == pc'[x] = pc[x] /\ ask'[x] = ask[x] /\ result'[x] = result[x]

\* Rows are added and never changed.
RowsGrow ==
    /\ Len(commits) \in Nat /\ Len(commits') \in Nat /\ Len(commits) <= Len(commits')
    /\ \A k \in Key : operation[k] # NoOne => operation'[k] # NoOne

\* What one caller relies on survives the steps of the others: rows only grow.
LEMMA CallerFrame ==
    ASSUME NEW x \in Proc, Caller(x), Same(x), RowsGrow
    PROVE  Caller(x)'
BY DEF Caller, Same, RowsGrow, Requests

\* The rows are what they were.
LEMMA QuietRows ==
    ASSUME IndInv, UNCHANGED rows
    PROVE  Rows' /\ Chain' /\ RowsGrow /\ commits \in Seq(Commit) /\ Len(commits) \in Nat
<1>1. commits \in Seq(Commit) /\ Len(commits) \in Nat
  BY RowsOf DEF IndInv, TypeOK
<1>2. commits' = commits /\ operation' = operation /\ pointer' = pointer /\ audit' = audit
  BY DEF rows
<1>3. Chain'
  BY <1>2 DEF IndInv, Chain, Left, NoneBefore, JustBefore
<1> QED BY <1>1, <1>2, <1>3 DEF IndInv, Rows, RowsGrow

\* Who owns nothing, before and after, disturbs no lock.
LEMMA QuietLocks ==
    ASSUME IndInv, NEW p \in Proc, \A x \in Proc \ {p} : Same(x), ~Owns(p), ~Owns(p)',
           UNCHANGED <<rows, locks>>
    PROVE  Locks'
<1>1. /\ keyLock \in [Key -> Proc \union {NoOne}]
      /\ pointerLock \in [Object -> Proc \union {NoOne}]
  BY DEF IndInv, TypeOK
<1>2. pc[p] # "commit" /\ pc'[p] # "commit"
  BY DEF Owns
<1>3. \A k \in Key : keyLock[k] # NoOne => keyLock[k] \in Proc \ {p}
  BY <1>1 DEF IndInv, Locks
<1>4. \A o \in Object : pointerLock[o] # NoOne => pointerLock[o] \in Proc \ {p}
  BY <1>1, <1>2 DEF IndInv, Locks
<1>5. \A x \in Proc \ {p} : pc'[x] = pc[x] /\ ask'[x] = ask[x]
  BY DEF Same
<1> QED BY <1>2, <1>3, <1>4, <1>5 DEF IndInv, Locks, Owns, Target, rows, locks

\* The callers: the one that moves by its step, the others by the frame.
LEMMA CallersLemma ==
    ASSUME IndInv, NEW p \in Proc, \A x \in Proc \ {p} : Same(x), RowsGrow, Caller(p)'
    PROVE  \A x \in Proc : Caller(x)'
BY CallerFrame DEF IndInv

\* A step that ends a transaction leaves nothing of it locked.
LEMMA UnlockLemma ==
    ASSUME IndInv, NEW p \in Proc, Unlock(p), \A x \in Proc \ {p} : Same(x),
           pc'[p] \in {"idle", "return"},
           \A k \in Key : keyLock[k] # p => operation'[k] = operation[k],
           \A o \in Object : pointerLock[o] # p => pointer'[o] = pointer[o]
    PROVE  /\ Locks'
           /\ keyLock' \in [Key -> Proc \union {NoOne}]
           /\ pointerLock' \in [Object -> Proc \union {NoOne}]
<1> USE ObjectsAssumption DEF IndInv
<1>1. /\ keyLock \in [Key -> Proc \union {NoOne}]
      /\ pointerLock \in [Object -> Proc \union {NoOne}]
  BY DEF TypeOK
<1>2. /\ \A k \in Key : keyLock'[k] = IF keyLock[k] = p THEN NoOne ELSE keyLock[k]
      /\ \A o \in Object : pointerLock'[o] = IF pointerLock[o] = p THEN NoOne ELSE pointerLock[o]
      /\ keyLock' \in [Key -> Proc \union {NoOne}]
      /\ pointerLock' \in [Object -> Proc \union {NoOne}]
  BY <1>1 DEF Unlock
<1>3. ~Owns(p)' /\ pc'[p] # "commit"
  BY DEF Owns
<1>4. \A x \in Proc \ {p} : Owns(x)' = Owns(x) /\ Target(x)' = Target(x) /\ pc'[x] = pc[x]
                            /\ ask'[x] = ask[x]
  BY DEF Same, Owns, Target
<1>5. \A x \in Proc : Owns(x) => ask[x].key \in Key
  BY DEF Owns, Caller, Requests
<1>6. \A x \in Proc : pc[x] = "commit" => Target(x) \in Object
  BY ObjectsAssumption DEF Caller, Requests, Target
<1>7. ASSUME NEW k \in Key, keyLock'[k] # NoOne
      PROVE  operation'[k] = NoOne /\ (Owns(keyLock[k]))' /\ (ask[keyLock[k]].key = k)'
  <2>1. keyLock[k] # p /\ keyLock[k] # NoOne /\ keyLock'[k] = keyLock[k] /\ keyLock[k] \in Proc
    BY <1>1, <1>2, <1>7
  <2>2. operation[k] = NoOne /\ Owns(keyLock[k]) /\ ask[keyLock[k]].key = k
    BY <2>1 DEF Locks
  <2>3. (Owns(keyLock[k]))' /\ ask'[keyLock'[k]] = ask[keyLock[k]]
    BY <2>1, <2>2 DEF Owns, Same
  <2> QED BY <2>1, <2>2, <2>3
<1>8. ASSUME NEW o \in Object, pointerLock'[o] # NoOne
      PROVE  (pc[pointerLock[o]] = "commit")' /\ (Target(pointerLock[o]) = o)'
  <2>1. /\ pointerLock[o] # p /\ pointerLock[o] # NoOne
        /\ pointerLock'[o] = pointerLock[o] /\ pointerLock[o] \in Proc
    BY <1>1, <1>2, <1>8
  <2>2. pc[pointerLock[o]] = "commit" /\ Target(pointerLock[o]) = o
    BY <2>1 DEF Locks
  <2> QED BY <2>1, <2>2 DEF Target, Same
<1>9. \A x \in Proc : Owns(x)' => (keyLock[ask[x].key] = x)'
  BY <1>2, <1>3, <1>4, <1>5 DEF Locks
<1>10. ASSUME NEW x \in Proc, pc'[x] = "commit"
       PROVE  (pointerLock[Target(x)] = x)' /\ (pointer[Target(x)] = ask[x].payload.expected)'
  <2>1. x # p /\ pc[x] = "commit" /\ Target(x) \in Object /\ Target(x)' = Target(x)
        /\ ask'[x] = ask[x]
    BY <1>3, <1>4, <1>6, <1>10
  <2>2. pointerLock[Target(x)] = x /\ pointer[Target(x)] = ask[x].payload.expected
    BY <2>1 DEF Locks
  <2> QED BY <1>2, <2>1, <2>2
<1> QED BY <1>2, <1>7, <1>8, <1>9, <1>10 DEF Locks

-------------------------------------------------------------------------------
\* The actions.

\* A pointer is inserted where no version has been approved.
LEMMA InitializeStep ==
    ASSUME IndInv, NEW o \in Object, Initialize(o)
    PROVE  IndInv'
<1> USE ObjectsAssumption
<1>1. /\ pointer[o] = NoOne /\ pointer' = [pointer EXCEPT ![o] = Null]
      /\ commits' = commits /\ audit' = audit /\ operation' = operation
      /\ keyLock' = keyLock /\ pointerLock' = pointerLock
      /\ pc' = pc /\ ask' = ask /\ result' = result /\ crashes' = crashes
      /\ pointer \in [Object -> Version \union {Null, NoOne}]
  BY DEF Initialize, locks, IndInv, TypeOK
<1>2. TypeOK'
  BY <1>1 DEF IndInv, TypeOK
<1>3. Rows'
  BY <1>1 DEF IndInv, Rows
<1>4. Locks'
  <2>1. ASSUME NEW x \in Proc, pc[x] = "commit"
        PROVE  pointer'[Target(x)] = pointer[Target(x)]
    <3>1. Target(x) \in Object /\ ask[x].payload.expected \in Version \union {Null}
      BY <2>1 DEF IndInv, Caller, Requests, Target
    <3>2. pointer[Target(x)] # NoOne
      BY <2>1, <3>1 DEF IndInv, Locks
    <3> QED BY <1>1, <3>1, <3>2
  <2> QED BY <1>1, <2>1 DEF IndInv, Locks, Owns, Target
<1>5. Chain'
  <2>1. /\ \A x, y : NoneBefore(x, y)' = NoneBefore(x, y)
        /\ \A v, x, y : Left(v, x, y)' = Left(v, x, y)
    BY <1>1 DEF Left, NoneBefore, JustBefore
  <2>2. NoneBefore(Len(commits) + 1, o)
    <3>1. ~ Left(NoOne, Len(commits) + 1, o)
      <4>1. Len(commits) \in Nat /\ \A j \in 1..Len(commits) : commits[j].payload.version \in Version
        <5>1. commits \in Seq(Commit)
          BY DEF IndInv, TypeOK
        <5>2. Len(commits) \in Nat /\ \A j \in 1..Len(commits) : commits[j] \in Commit
          BY <5>1, RowsOf
        <5> QED BY <5>2 DEF Commit
      <4> QED BY <4>1 DEF Left
    <3> QED BY <1>1, <3>1 DEF IndInv, Chain
  <2>3. Left(Null, Len(commits) + 1, o)
    BY <2>2 DEF Left
  <2>4. \A x \in Object : x # o => pointer'[x] = pointer[x]
    BY <1>1
  <2>5. pointer'[o] = Null
    BY <1>1
  <2>6. \A i \in 1..Len(commits') :
          Left(commits[i].payload.expected, i, commits[i].payload.object)'
    BY <1>1, <2>1 DEF IndInv, Chain
  <2>7. ASSUME NEW x \in Object
        PROVE  \/ pointer'[x] = NoOne /\ NoneBefore(Len(commits) + 1, x)
               \/ Left(pointer'[x], Len(commits) + 1, x)
    BY <2>3, <2>4, <2>5 DEF IndInv, Chain
  <2>8. ASSUME NEW x \in Object
        PROVE  \/ (pointer[x] = NoOne)' /\ NoneBefore(Len(commits) + 1, x)'
               \/ Left(pointer[x], Len(commits) + 1, x)'
    BY <1>1, <2>7 DEF Left, NoneBefore, JustBefore
  <2> QED BY <2>6, <2>8 DEF Chain
<1>6. \A p \in Proc : Caller(p)'
  BY <1>1 DEF IndInv, Caller
<1> QED BY <1>2, <1>3, <1>4, <1>5, <1>6 DEF IndInv

LEMMA RequestStep ==
    ASSUME IndInv, NEW p \in Proc, Request(p)
    PROVE  IndInv'
<1> USE ObjectsAssumption DEF rows, locks
<1>1. PICK q \in Requests : ask' = [ask EXCEPT ![p] = q]
  BY DEF Request, Requests
<1>2. /\ pc[p] = "idle" /\ pc' = [pc EXCEPT ![p] = "reserve"]
      /\ UNCHANGED <<rows, locks, result, crashes>>
  BY DEF Request, Goto
<1>3. /\ pc \in [Proc -> {"idle", "reserve", "replay", "validate", "update", "commit", "return"}]
      /\ ask \in [Proc -> Requests \union {NoOne}]
  BY DEF IndInv, TypeOK, Requests
<1>4. /\ pc'[p] = "reserve" /\ ask'[p] = q /\ result'[p] = result[p]
      /\ \A x \in Proc \ {p} : Same(x)
  BY <1>1, <1>2, <1>3 DEF Same
<1>5. TypeOK'
  BY <1>1, <1>2 DEF IndInv, TypeOK, Requests
<1>6. Rows' /\ Chain' /\ RowsGrow
  BY <1>2, QuietRows
<1>7. Locks'
  BY <1>2, <1>4, QuietLocks DEF Owns
<1>8. Caller(p)'
  BY <1>2, <1>4 DEF IndInv, Caller
<1>9. \A x \in Proc : Caller(x)'
  BY <1>4, <1>6, <1>8, CallersLemma
<1> QED BY <1>5, <1>6, <1>7, <1>9 DEF IndInv

LEMMA ReserveStep ==
    ASSUME IndInv, NEW p \in Proc, Reserve(p)
    PROVE  IndInv'
<1> USE ObjectsAssumption DEF rows, locks
<1>1. /\ pc[p] = "reserve" /\ keyLock[ask[p].key] = NoOne
      /\ UNCHANGED <<rows, pointerLock, ask, result, crashes>>
      /\ \/ /\ operation[ask[p].key] = NoOne
            /\ keyLock' = [keyLock EXCEPT ![ask[p].key] = p]
            /\ pc' = [pc EXCEPT ![p] = "validate"]
         \/ /\ operation[ask[p].key] # NoOne
            /\ pc' = [pc EXCEPT ![p] = "replay"]
            /\ keyLock' = keyLock
  BY DEF Reserve, Goto
<1>2. /\ pc \in [Proc -> {"idle", "reserve", "replay", "validate", "update", "commit", "return"}]
      /\ keyLock \in [Key -> Proc \union {NoOne}]
      /\ pointerLock \in [Object -> Proc \union {NoOne}]
  BY DEF IndInv, TypeOK
<1>3. ask[p] \in Requests /\ ask[p].key \in Key
  BY <1>1 DEF IndInv, Caller, Requests
<1>4. /\ \A x \in Proc \ {p} : Same(x) /\ pc'[x] = pc[x]
      /\ pc'[p] \in {"validate", "replay"} /\ ask' = ask /\ result' = result
  BY <1>1, <1>2 DEF Same
<1>5. TypeOK'
  <2>1. keyLock' \in [Key -> Proc \union {NoOne}]
    BY <1>1, <1>2, <1>3
  <2>2. pc' \in [Proc -> {"idle", "reserve", "replay", "validate", "update", "commit", "return"}]
    BY <1>1, <1>2
  <2> QED BY <1>1, <2>1, <2>2 DEF IndInv, TypeOK
<1>6. Rows' /\ Chain' /\ RowsGrow
  BY <1>1, QuietRows
<1>7. Locks'
  <2>1. ~Owns(p) /\ pc[p] # "commit" /\ pc'[p] # "commit"
        /\ (Owns(p)' <=> operation[ask[p].key] = NoOne)
    BY <1>1, <1>2, <1>4 DEF Owns
  <2>2. \A k \in Key : keyLock[k] # NoOne => keyLock[k] \in Proc \ {p} /\ k # ask[p].key
    BY <1>1, <1>2, <2>1 DEF IndInv, Locks
  <2>3. \A o \in Object : pointerLock[o] # NoOne => pointerLock[o] \in Proc \ {p}
    BY <1>2, <2>1 DEF IndInv, Locks
  <2>4. \A x \in Proc \ {p} : Owns(x)' = Owns(x) /\ Target(x)' = Target(x) /\ ask[x]' = ask[x]
    BY <1>4 DEF Owns, Target
  <2>5. /\ operation' = operation /\ pointer' = pointer /\ pointerLock' = pointerLock
    BY <1>1
  <2>6. ASSUME NEW k \in Key, keyLock'[k] # NoOne
        PROVE  operation'[k] = NoOne /\ (Owns(keyLock[k]))' /\ (ask[keyLock[k]].key = k)'
    <3>1. CASE k = ask[p].key
      <4>1. keyLock'[k] = p /\ operation[k] = NoOne
        BY <1>1, <1>2, <1>3, <2>6, <3>1
      <4>2. pc'[keyLock'[k]] = "validate"
        BY <1>1, <1>2, <1>3, <3>1, <4>1
      <4> QED BY <1>4, <2>5, <3>1, <4>1, <4>2 DEF Owns
    <3>2. CASE k # ask[p].key
      <4>1. keyLock'[k] = keyLock[k] /\ keyLock[k] # NoOne
        BY <1>1, <1>2, <2>6, <3>2
      <4>2. keyLock[k] \in Proc \ {p} /\ operation[k] = NoOne /\ Owns(keyLock[k])
            /\ ask[keyLock[k]].key = k
        BY <2>2, <4>1 DEF IndInv, Locks
      <4> QED BY <1>4, <2>5, <4>1, <4>2 DEF Owns
    <3> QED BY <3>1, <3>2
  <2>7. ASSUME NEW x \in Proc, Owns(x)'
        PROVE  (keyLock[ask[x].key] = x)'
    <3>1. CASE x = p
      BY <1>1, <1>2, <1>3, <2>1, <2>7, <3>1
    <3>2. CASE x # p
      <4>1. keyLock[ask[x].key] = x /\ ask[x].key \in Key
        BY <2>4, <2>7, <3>2 DEF IndInv, Locks, Owns, Caller, Requests
      <4>2. ask[x].key # ask[p].key
        BY <1>1, <4>1
      <4> QED BY <1>1, <1>2, <4>1, <4>2
    <3> QED BY <3>1, <3>2
  <2>8. ASSUME NEW o \in Object, pointerLock'[o] # NoOne
        PROVE  (pc[pointerLock[o]] = "commit")' /\ (Target(pointerLock[o]) = o)'
    BY <1>4, <2>3, <2>5, <2>8 DEF IndInv, Locks, Target
  <2>9. ASSUME NEW x \in Proc, pc'[x] = "commit"
        PROVE  /\ (pointerLock[Target(x)] = x)'
               /\ (pointer[Target(x)] = ask[x].payload.expected)'
    BY <1>4, <2>1, <2>5, <2>9 DEF IndInv, Locks, Target
  <2> QED BY <2>6, <2>7, <2>8, <2>9 DEF Locks
<1>8. Caller(p)'
  BY <1>1, <1>2, <1>3, <1>4 DEF IndInv, Caller
<1>9. \A x \in Proc : Caller(x)'
  BY <1>4, <1>6, <1>8, CallersLemma
<1> QED BY <1>5, <1>6, <1>7, <1>9 DEF IndInv

\* What a caller is told.
Answers == {"", "COMMITTED", "STATE_CONFLICT", "INVALID_OBJECT_VERSION", "IDEMPOTENCY_CONFLICT"}
               \X Nat

LEMMA AnswersLemma ==
    /\ Refusals \subseteq Answers /\ IdempotencyConflict \in Answers /\ NoResult \in Answers
    /\ \A i \in Nat : Committed(i) \in Answers
    /\ \A n \in Nat : {"COMMITTED"} \X (1..n) \subseteq Answers
<1>1. \A i \in Nat : \A w \in {"", "COMMITTED", "STATE_CONFLICT", "INVALID_OBJECT_VERSION",
                                "IDEMPOTENCY_CONFLICT"} : <<w, i>> \in Answers
  BY DEF Answers
<1>2. ASSUME NEW n \in Nat, NEW r \in {"COMMITTED"} \X (1..n)
      PROVE  r \in Answers
  <2>1. r = <<"COMMITTED", r[2]>> /\ r[2] \in 1..n
    OBVIOUS
  <2>2. r[2] \in Nat
    BY <2>1
  <2> QED BY <1>1, <2>1, <2>2
<1>3. <<"STATE_CONFLICT", 0>> \in Answers /\ <<"INVALID_OBJECT_VERSION", 0>> \in Answers
  BY <1>1
<1> QED BY <1>1, <1>2, <1>3 DEF Refusals, IdempotencyConflict, NoResult, Committed

\* Of the places of a caller and of the answers, only those of p change.
LEMMA MoveLemma ==
    ASSUME IndInv, NEW p \in Proc, NEW l, pc' = [pc EXCEPT ![p] = l], ask' = ask
    PROVE  /\ pc \in [Proc -> {"idle", "reserve", "replay", "validate", "update", "commit", "return"}]
           /\ result \in [Proc -> Answers]
           /\ pc'[p] = l /\ ask'[p] = ask[p]
           /\ \A x \in Proc \ {p} : pc'[x] = pc[x] /\ ask'[x] = ask[x]
           /\ pc[p] # "idle" => /\ ask[p] \in Requests /\ ask[p].key \in Key
                                /\ ask[p].payload \in Payload /\ Target(p) \in Object
                                /\ ask[p].payload.expected \in Version \union {Null}
<1>1. /\ pc \in [Proc -> {"idle", "reserve", "replay", "validate", "update", "commit", "return"}]
      /\ result \in [Proc -> Answers] /\ ask \in [Proc -> [key : Key, payload : Payload] \union {NoOne}]
  BY DEF IndInv, TypeOK, Answers
<1>2. pc[p] # "idle" => ask[p] \in Requests
  BY DEF IndInv, Caller
<1>3. ask[p] \in Requests =>
          /\ ask[p].key \in Key /\ ask[p].payload \in Payload /\ Target(p) \in Object
          /\ ask[p].payload.expected \in Version \union {Null}
  BY ObjectsAssumption DEF Requests, Target
<1> QED BY <1>1, <1>2, <1>3

LEMMA ReplayStep ==
    ASSUME IndInv, NEW p \in Proc, Replay(p)
    PROVE  IndInv'
<1> USE DEF rows, locks
<1>1. /\ pc[p] = "replay" /\ pc' = [pc EXCEPT ![p] = "return"] /\ ask' = ask
      /\ UNCHANGED <<rows, locks, crashes>>
      /\ \/ result' = [result EXCEPT ![p] = Committed(operation[ask[p].key].commit)]
         \/ result' = [result EXCEPT ![p] = IdempotencyConflict]
  BY DEF Replay, Return, Goto
<1>2. /\ pc \in [Proc -> {"idle", "reserve", "replay", "validate", "update", "commit", "return"}]
      /\ result \in [Proc -> Answers]
      /\ pc'[p] = "return" /\ ask'[p] = ask[p] /\ ask[p] \in Requests /\ ask[p].key \in Key
      /\ \A x \in Proc \ {p} : pc'[x] = pc[x] /\ ask'[x] = ask[x]
  BY <1>1, MoveLemma
<1>3. /\ \A x \in Proc \ {p} : Same(x)
      /\ result'[p] \in {IdempotencyConflict} \union ({"COMMITTED"} \X (1..Len(commits)))
      /\ result' \in [Proc -> Answers]
  <2>1. operation[ask[p].key].commit \in 1..Len(commits) /\ Len(commits) \in Nat
    BY <1>1, <1>2, RowsOf DEF IndInv, Caller, Rows, TypeOK
  <2>2. Committed(operation[ask[p].key].commit) \in {"COMMITTED"} \X (1..Len(commits))
    BY <2>1 DEF Committed
  <2>3. IdempotencyConflict \in Answers /\ {"COMMITTED"} \X (1..Len(commits)) \subseteq Answers
    BY <2>1, AnswersLemma
  <2> QED BY <1>1, <1>2, <2>2, <2>3 DEF Same
<1>4. TypeOK'
  BY <1>1, <1>2, <1>3 DEF IndInv, TypeOK, Answers
<1>5. Rows' /\ Chain' /\ RowsGrow
  BY <1>1, QuietRows
<1>6. Locks'
  BY <1>1, <1>2, <1>3, QuietLocks DEF Owns
<1>7. Caller(p)'
  BY <1>1, <1>2, <1>3 DEF IndInv, Caller
<1>8. \A x \in Proc : Caller(x)'
  BY <1>3, <1>5, <1>7, CallersLemma
<1> QED BY <1>4, <1>5, <1>6, <1>8 DEF IndInv

\* A transaction that ends without having written: an answer, and no lock.
LEMMA RefuseStep ==
    ASSUME IndInv, NEW p \in Proc, pc[p] # "idle", NEW r \in Refusals, Return(p, r), Unlock(p),
           UNCHANGED <<rows, ask, crashes>>
    PROVE  IndInv'
<1> USE DEF rows, locks
<1>1. /\ pc' = [pc EXCEPT ![p] = "return"] /\ ask' = ask
      /\ result' = [result EXCEPT ![p] = r]
  BY DEF Return, Goto
<1>2. /\ pc \in [Proc -> {"idle", "reserve", "replay", "validate", "update", "commit", "return"}]
      /\ result \in [Proc -> Answers]
      /\ pc'[p] = "return" /\ ask'[p] = ask[p] /\ ask[p] \in Requests
      /\ \A x \in Proc \ {p} : pc'[x] = pc[x] /\ ask'[x] = ask[x]
  BY <1>1, MoveLemma
<1>3. /\ \A x \in Proc \ {p} : Same(x)
      /\ result'[p] = r /\ result' \in [Proc -> Answers]
  <2>1. r \in Answers
    BY AnswersLemma
  <2> QED BY <1>1, <1>2, <2>1 DEF Same
<1>4. /\ Locks'
      /\ keyLock' \in [Key -> Proc \union {NoOne}]
      /\ pointerLock' \in [Object -> Proc \union {NoOne}]
  BY <1>2, <1>3, UnlockLemma
<1>5. TypeOK'
  BY <1>1, <1>2, <1>3, <1>4 DEF IndInv, TypeOK, Answers
<1>6. Rows' /\ Chain' /\ RowsGrow
  BY QuietRows
<1>7. Caller(p)'
  BY <1>2, <1>3 DEF IndInv, Caller
<1>8. \A x \in Proc : Caller(x)'
  BY <1>3, <1>6, <1>7, CallersLemma
<1> QED BY <1>4, <1>5, <1>6, <1>8 DEF IndInv

LEMMA ValidateStep ==
    ASSUME IndInv, NEW p \in Proc, Validate(p)
    PROVE  IndInv'
<1> USE DEF rows, locks
<1>1. CASE ObjectOf[ask[p].payload.version] # ask[p].payload.object
  BY <1>1, RefuseStep DEF Validate, Refusals
<1>2. CASE ObjectOf[ask[p].payload.version] = ask[p].payload.object
  <2>1. /\ pc[p] = "validate" /\ pc' = [pc EXCEPT ![p] = "update"] /\ ask' = ask
        /\ UNCHANGED <<rows, locks, result, crashes>>
    BY <1>2 DEF Validate, Goto
  <2>2. /\ pc \in [Proc -> {"idle", "reserve", "replay", "validate", "update", "commit", "return"}]
        /\ pc'[p] = "update" /\ ask'[p] = ask[p] /\ ask[p] \in Requests
        /\ \A x \in Proc \ {p} : Same(x)
    BY <2>1, MoveLemma DEF Same
  <2>3. TypeOK'
    BY <2>1, <2>2 DEF IndInv, TypeOK
  <2>4. Rows' /\ Chain' /\ RowsGrow
    BY <2>1, QuietRows
  <2>5. Locks'
    <3>1. \A x \in Proc : Owns(x)' = Owns(x) /\ ask'[x] = ask[x] /\ Target(x)' = Target(x)
      BY <2>1, <2>2 DEF Owns, Same, Target
    <3>2. \A x \in Proc : pc'[x] = "commit" <=> pc[x] = "commit"
      BY <2>1, <2>2 DEF Same
    <3>3. /\ keyLock \in [Key -> Proc \union {NoOne}]
          /\ pointerLock \in [Object -> Proc \union {NoOne}]
      BY DEF IndInv, TypeOK
    <3>4. \A k \in Key : keyLock[k] # NoOne =>
             /\ operation'[k] = NoOne /\ (Owns(keyLock[k]))' /\ (ask[keyLock[k]].key = k)'
      BY <2>1, <3>1, <3>3 DEF IndInv, Locks, Owns
    <3>5. \A o \in Object : pointerLock[o] # NoOne =>
             (pc[pointerLock[o]] = "commit")' /\ (Target(pointerLock[o]) = o)'
      BY <2>1, <3>2, <3>3 DEF IndInv, Locks, Target
    <3> QED BY <2>1, <3>1, <3>2, <3>4, <3>5 DEF IndInv, Locks
  <2>6. Caller(p)'
    BY <1>2, <2>1, <2>2 DEF IndInv, Caller, Commit, Requests
  <2>7. \A x \in Proc : Caller(x)'
    BY <2>2, <2>4, <2>6, CallersLemma
  <2> QED BY <2>3, <2>4, <2>5, <2>7 DEF IndInv
<1> QED BY <1>1, <1>2

LEMMA UpdatePointerStep ==
    ASSUME IndInv, NEW p \in Proc, UpdatePointer(p)
    PROVE  IndInv'
<1> USE DEF rows, locks
<1>1. CASE pointer[Target(p)] # ask[p].payload.expected
  BY <1>1, RefuseStep DEF UpdatePointer, Refusals, Target
<1>2. CASE pointer[Target(p)] = ask[p].payload.expected
  <2>1. /\ pc[p] = "update" /\ pc' = [pc EXCEPT ![p] = "commit"] /\ ask' = ask
        /\ pointerLock[Target(p)] = NoOne
        /\ pointerLock' = [pointerLock EXCEPT ![Target(p)] = p]
        /\ UNCHANGED <<rows, keyLock, result, crashes>>
    BY <1>2 DEF UpdatePointer, Goto, Target
  <2>2. /\ pc \in [Proc -> {"idle", "reserve", "replay", "validate", "update", "commit", "return"}]
        /\ pc'[p] = "commit" /\ ask'[p] = ask[p] /\ ask[p] \in Requests /\ Target(p) \in Object
        /\ \A x \in Proc \ {p} : Same(x)
    BY <2>1, MoveLemma DEF Same
  <2>3. /\ keyLock \in [Key -> Proc \union {NoOne}]
        /\ pointerLock \in [Object -> Proc \union {NoOne}]
    BY DEF IndInv, TypeOK
  <2>4. pointerLock' \in [Object -> Proc \union {NoOne}]
    BY <2>1, <2>3
  <2>5. TypeOK'
    BY <2>1, <2>2, <2>4 DEF IndInv, TypeOK
  <2>6. Rows' /\ Chain' /\ RowsGrow
    BY <2>1, QuietRows
  <2>7. Locks'
    <3>1. \A x \in Proc : Owns(x)' = Owns(x) /\ ask'[x] = ask[x] /\ Target(x)' = Target(x)
      BY <2>1, <2>2 DEF Owns, Same, Target
    <3>2. \A x \in Proc \ {p} : pc'[x] = pc[x]
      BY <2>2 DEF Same
    <3>3. \A k \in Key : keyLock[k] # NoOne =>
             /\ operation'[k] = NoOne /\ (Owns(keyLock[k]))' /\ (ask[keyLock[k]].key = k)'
      BY <2>1, <3>1, <2>3 DEF IndInv, Locks, Owns
    <3>4. ASSUME NEW o \in Object, pointerLock'[o] # NoOne
          PROVE  (pc[pointerLock[o]] = "commit")' /\ (Target(pointerLock[o]) = o)'
      <4>1. CASE o = Target(p)
        <5>1. pointerLock'[o] = p
          BY <2>1, <2>3, <4>1
        <5> QED BY <2>2, <3>1, <4>1, <5>1 DEF Target
      <4>2. CASE o # Target(p)
        <5>1. pointerLock'[o] = pointerLock[o] /\ pointerLock[o] # NoOne /\ pointerLock[o] \in Proc
          BY <2>1, <2>3, <3>4, <4>2
        <5>2. pc[pointerLock[o]] = "commit" /\ Target(pointerLock[o]) = o
          BY <5>1 DEF IndInv, Locks
        <5> QED BY <2>1, <3>2, <5>1, <5>2 DEF Target
      <4> QED BY <4>1, <4>2
    <3>5. ASSUME NEW x \in Proc, pc'[x] = "commit"
          PROVE  /\ (pointerLock[Target(x)] = x)'
                 /\ (pointer[Target(x)] = ask[x].payload.expected)'
      <4>1. CASE x = p
        BY <1>2, <2>1, <2>2, <2>3, <3>1, <4>1 DEF Target
      <4>2. CASE x # p
        <5>1. pc[x] = "commit" /\ Target(x) \in Object
          BY ObjectsAssumption, <3>2, <3>5, <4>2 DEF IndInv, Caller, Requests, Target
        <5>2. pointerLock[Target(x)] = x /\ pointer[Target(x)] = ask[x].payload.expected
          BY <5>1 DEF IndInv, Locks
        <5>3. Target(x) # Target(p)
          BY ObjectsAssumption, <2>1, <5>2
        <5> QED BY <2>1, <2>3, <3>1, <5>1, <5>2, <5>3
      <4> QED BY <4>1, <4>2
    <3>6. \A x \in Proc : Owns(x)' => (keyLock[ask[x].key] = x)'
      BY <2>1, <3>1 DEF IndInv, Locks
    <3> QED BY <2>1, <3>3, <3>4, <3>5, <3>6 DEF Locks
  <2>8. Caller(p)'
    BY <2>1, <2>2 DEF IndInv, Caller
  <2>9. \A x \in Proc : Caller(x)'
    BY <2>2, <2>6, <2>8, CallersLemma
  <2> QED BY <2>5, <2>6, <2>7, <2>9 DEF IndInv
<1> QED BY <1>1, <1>2

\* The client goes away, and whatever it had locked is free.
LEMMA LeaveLemma ==
    ASSUME IndInv, NEW p \in Proc, Leave(p), UNCHANGED rows, crashes' \in 0..MaxCrashes,
           \/ Unlock(p)
           \/ ~Owns(p) /\ UNCHANGED locks
    PROVE  IndInv'
<1> USE DEF rows, locks
<1>1. /\ pc' = [pc EXCEPT ![p] = "idle"] /\ ask' = [ask EXCEPT ![p] = NoOne]
      /\ result' = [result EXCEPT ![p] = NoResult]
  BY DEF Leave, Goto
<1>2. /\ pc \in [Proc -> {"idle", "reserve", "replay", "validate", "update", "commit", "return"}]
      /\ result \in [Proc -> Answers] /\ ask \in [Proc -> Requests \union {NoOne}]
      /\ keyLock \in [Key -> Proc \union {NoOne}]
      /\ pointerLock \in [Object -> Proc \union {NoOne}]
  BY DEF IndInv, TypeOK, Answers, Requests
<1>3. /\ pc'[p] = "idle" /\ result'[p] = NoResult /\ result' \in [Proc -> Answers]
      /\ \A x \in Proc \ {p} : Same(x)
      /\ pc' \in [Proc -> {"idle", "reserve", "replay", "validate", "update", "commit", "return"}]
      /\ ask' \in [Proc -> Requests \union {NoOne}]
  BY <1>1, <1>2, AnswersLemma DEF Same
<1>4. /\ Locks'
      /\ keyLock' \in [Key -> Proc \union {NoOne}]
      /\ pointerLock' \in [Object -> Proc \union {NoOne}]
  <2>1. CASE Unlock(p)
    BY <1>3, <2>1, UnlockLemma
  <2>2. CASE ~Owns(p) /\ UNCHANGED locks
    BY <1>2, <1>3, <2>2, QuietLocks DEF Owns
  <2> QED BY <2>1, <2>2
<1>5. TypeOK'
  BY <1>3, <1>4 DEF IndInv, TypeOK, Answers, Requests
<1>6. Rows' /\ Chain' /\ RowsGrow
  BY QuietRows
<1>7. Caller(p)'
  BY <1>3 DEF Caller
<1>8. \A x \in Proc : Caller(x)'
  BY <1>3, <1>6, <1>7, CallersLemma
<1> QED BY <1>4, <1>5, <1>6, <1>8 DEF IndInv

LEMMA ReceiveStep ==
    ASSUME IndInv, NEW p \in Proc, Receive(p)
    PROVE  IndInv'
<1>1. crashes' \in 0..MaxCrashes /\ ~Owns(p)
  BY DEF Receive, IndInv, TypeOK, Owns
<1> QED BY <1>1, LeaveLemma DEF Receive

LEMMA CrashStep ==
    ASSUME IndInv, NEW p \in Proc, Crash(p)
    PROVE  IndInv'
<1>1. crashes \in 0..MaxCrashes /\ crashes < MaxCrashes /\ crashes' = crashes + 1
  BY DEF Crash, IndInv, TypeOK
<1>2. crashes' \in 0..MaxCrashes
  BY <1>1, ObjectsAssumption
<1> QED BY <1>2, LeaveLemma DEF Crash

\* What the commit finds and what it leaves.
LEMMA CommitFacts ==
    ASSUME IndInv, NEW p \in Proc, CommitApproval(p)
    PROVE  /\ pc[p] = "commit" /\ pc' = [pc EXCEPT ![p] = "return"] /\ pc'[p] = "return"
           /\ ask' = ask /\ crashes' = crashes
           /\ ask[p] \in Commit /\ ask[p] \in Requests /\ ask[p].key \in Key
           /\ ask[p].payload \in Payload /\ Target(p) \in Object
           /\ ask[p].payload.version \in Version
           /\ operation[ask[p].key] = NoOne /\ keyLock[ask[p].key] = p
           /\ pointerLock[Target(p)] = p /\ pointer[Target(p)] = ask[p].payload.expected
           /\ commits \in Seq(Commit) /\ commits' \in Seq(Commit)
           /\ Len(commits) \in Nat /\ Len(commits') = Len(commits) + 1
           /\ \A i \in 1..Len(commits) : commits'[i] = commits[i] /\ commits[i] \in Commit
           /\ commits'[Len(commits) + 1] = ask[p]
           /\ DOMAIN commits = 1..Len(commits) /\ DOMAIN commits' = 1..Len(commits) + 1
           /\ operation'[ask[p].key] = [hash |-> ask[p].payload, commit |-> Len(commits) + 1]
           /\ \A k \in Key : k # ask[p].key => operation'[k] = operation[k]
           /\ operation' \in [Key -> [hash : Payload, commit : Nat] \union {NoOne}]
           /\ pointer'[Target(p)] = ask[p].payload.version
           /\ \A o \in Object : o # Target(p) => pointer'[o] = pointer[o]
           /\ pointer' \in [Object -> Version \union {Null, NoOne}]
           /\ audit' = audit \union {Len(commits) + 1}
           /\ result'[p] = Committed(Len(commits) + 1) /\ result' \in [Proc -> Answers]
           /\ \A x \in Proc \ {p} : Same(x)
<1>1. /\ pc[p] = "commit" /\ pc' = [pc EXCEPT ![p] = "return"] /\ ask' = ask /\ crashes' = crashes
      /\ pointer' = [pointer EXCEPT ![Target(p)] = ask[p].payload.version]
      /\ commits' = Append(commits, ask[p]) /\ audit' = audit \union {Len(commits) + 1}
      /\ operation' = [operation EXCEPT ![ask[p].key] =
                            [hash |-> ask[p].payload, commit |-> Len(commits) + 1]]
      /\ result' = [result EXCEPT ![p] = Committed(Len(commits) + 1)]
  BY DEF CommitApproval, Return, Goto, Target
<1>2. /\ result \in [Proc -> Answers] /\ pc'[p] = "return"
      /\ \A x \in Proc \ {p} : pc'[x] = pc[x] /\ ask'[x] = ask[x]
      /\ ask[p] \in Requests /\ ask[p].key \in Key /\ ask[p].payload \in Payload
      /\ Target(p) \in Object
  BY <1>1, MoveLemma
<1>3. ask[p] \in Commit /\ ask[p].payload.version \in Version
  <2>1. ask[p] \in Commit
    BY <1>1 DEF IndInv, Caller
  <2>2. ask[p].payload.version \in Version
    BY <1>2, ObjectsAssumption
  <2> QED BY <2>1, <2>2
<1>4. /\ keyLock[ask[p].key] = p /\ pointerLock[Target(p)] = p
      /\ pointer[Target(p)] = ask[p].payload.expected
  BY <1>1 DEF IndInv, Locks, Owns
<1>5. operation[ask[p].key] = NoOne
  BY <1>2, <1>4, ObjectsAssumption DEF IndInv, Locks
<1>6. /\ commits \in Seq(Commit) /\ pointer \in [Object -> Version \union {Null, NoOne}]
      /\ operation \in [Key -> [hash : Payload, commit : Nat] \union {NoOne}]
  BY DEF IndInv, TypeOK
<1>7. /\ commits' \in Seq(Commit)
      /\ Len(commits) \in Nat /\ Len(commits') = Len(commits) + 1
      /\ \A i \in 1..Len(commits) : commits'[i] = commits[i] /\ commits[i] \in Commit
      /\ commits'[Len(commits) + 1] = ask[p]
      /\ DOMAIN commits = 1..Len(commits) /\ DOMAIN commits' = 1..Len(commits) + 1
  BY <1>1, <1>3, <1>6, RowAdded, RowsOf
<1>8. /\ operation'[ask[p].key] = [hash |-> ask[p].payload, commit |-> Len(commits) + 1]
      /\ \A k \in Key : k # ask[p].key => operation'[k] = operation[k]
      /\ operation' \in [Key -> [hash : Payload, commit : Nat] \union {NoOne}]
  <2>1. [hash |-> ask[p].payload, commit |-> Len(commits) + 1] \in [hash : Payload, commit : Nat]
    BY <1>2, <1>7
  <2> QED BY <1>1, <1>2, <1>6, <2>1
<1>9. /\ pointer'[Target(p)] = ask[p].payload.version
      /\ \A o \in Object : o # Target(p) => pointer'[o] = pointer[o]
      /\ pointer' \in [Object -> Version \union {Null, NoOne}]
  BY <1>1, <1>2, <1>3, <1>6
<1>10. /\ result'[p] = Committed(Len(commits) + 1) /\ result' \in [Proc -> Answers]
       /\ \A x \in Proc \ {p} : Same(x)
  <2>1. Committed(Len(commits) + 1) \in Answers
    BY <1>7, AnswersLemma
  <2> QED BY <1>1, <1>2, <2>1 DEF Same
<1> QED BY <1>1, <1>2, <1>3, <1>4, <1>5, <1>6, <1>7, <1>8, <1>9, <1>10

LEMMA CommitApprovalStep ==
    ASSUME IndInv, NEW p \in Proc, CommitApproval(p)
    PROVE  IndInv'
<1>0. PICK n \in Nat : n = Len(commits)
  BY CommitFacts
<1>1. /\ n \in Nat /\ Len(commits') = n + 1
      /\ \A i \in 1..n : commits'[i] = commits[i] /\ commits[i] \in Commit
      /\ commits'[n + 1] = ask[p]
  BY <1>0, CommitFacts
<1>2. /\ ask[p] \in Requests /\ ask[p].key \in Key /\ ask[p].payload \in Payload
      /\ Target(p) \in Object /\ operation[ask[p].key] = NoOne
      /\ operation'[ask[p].key] = [hash |-> ask[p].payload, commit |-> n + 1]
      /\ \A k \in Key : k # ask[p].key => operation'[k] = operation[k]
  BY <1>0, CommitFacts
<1>3. \A x \in Proc \ {p} : Same(x)
  BY CommitFacts
<1>4. \A i \in 1..n : commits[i].key \in Key
  BY <1>1 DEF Commit
<1>5. operation'[ask[p].key] # NoOne
  <2>1. [hash |-> ask[p].payload, commit |-> n + 1] \in [hash : Payload, commit : Nat]
    BY <1>1, <1>2
  <2> QED BY <1>2, <2>1, ObjectsAssumption
<1>6. Rows'
  <2>1. /\ audit = 1..n
        /\ \A i \in 1..n : operation[commits[i].key] = [hash |-> commits[i].payload, commit |-> i]
        /\ \A k \in Key : operation[k] # NoOne =>
              operation[k].commit \in 1..n /\ commits[operation[k].commit].key = k
    BY <1>0 DEF IndInv, Rows
  <2>2. audit' = 1..n + 1
    <3>1. audit' = audit \union {n + 1}
      BY <1>0, CommitFacts
    <3> QED BY <1>1, <2>1, <3>1
  <2>3. ASSUME NEW i \in 1..n + 1
        PROVE  operation'[commits'[i].key] = [hash |-> commits'[i].payload, commit |-> i]
    <3>1. CASE i = n + 1
      BY <1>1, <1>2, <3>1
    <3>2. CASE i # n + 1
      <4>1. i \in 1..n
        BY <1>1, <3>2
      <4>2. operation[commits[i].key] # NoOne
        <5>1. [hash |-> commits[i].payload, commit |-> i] \in [hash : Payload, commit : Nat]
          BY <1>1, <4>1 DEF Commit
        <5> QED BY <2>1, <4>1, <5>1, ObjectsAssumption
      <4>3. commits[i].key # ask[p].key
        BY <1>2, <4>2
      <4> QED BY <1>1, <1>2, <1>4, <2>1, <4>1, <4>3
    <3> QED BY <3>1, <3>2
  <2>4. ASSUME NEW k \in Key, operation'[k] # NoOne
        PROVE  operation'[k].commit \in 1..n + 1 /\ commits'[operation'[k].commit].key = k
    <3>1. CASE k = ask[p].key
      <4>1. operation'[k].commit = n + 1
        BY <1>2, <3>1
      <4> QED BY <1>1, <3>1, <4>1
    <3>2. CASE k # ask[p].key
      <4>1. operation'[k] = operation[k] /\ operation[k].commit \in 1..n
            /\ commits[operation[k].commit].key = k
        BY <1>2, <2>1, <2>4, <3>2
      <4> QED BY <1>1, <4>1
    <3> QED BY <3>1, <3>2
  <2> QED BY <1>1, <2>2, <2>3, <2>4 DEF Rows
<1>7. Chain'
  <2>1. ASSUME NEW i \in 1..n + 1, NEW o
        PROVE  /\ NoneBefore(i, o)' = NoneBefore(i, o)
               /\ \A v : Left(v, i, o) => Left(v, i, o)'
    <3>1. \A j \in 1..i - 1 : commits'[j] = commits[j]
      BY <1>1
    <3>2. NoneBefore(i, o)' = NoneBefore(i, o)
      BY <3>1 DEF NoneBefore
    <3>3. \A j \in 1..i - 1 : JustBefore(j, i, o) => JustBefore(j, i, o)'
      <4>1. \A j \in 1..i - 1 : \A m \in j + 1..i - 1 : commits'[m] = commits[m]
        BY <1>1
      <4> QED BY <3>1, <4>1 DEF JustBefore
    <3> QED BY <3>1, <3>2, <3>3 DEF Left
  <2>2. /\ \A i \in 1..n : Left(commits[i].payload.expected, i, commits[i].payload.object)
        /\ \A o \in Object : \/ pointer[o] = NoOne /\ NoneBefore(n + 1, o)
                            \/ Left(pointer[o], n + 1, o)
    BY <1>0 DEF IndInv, Chain
  <2>3. /\ pointer[Target(p)] = ask[p].payload.expected /\ pointer[Target(p)] # NoOne
        /\ pointer'[Target(p)] = ask[p].payload.version
        /\ \A o \in Object : o # Target(p) => pointer'[o] = pointer[o]
    <3>1. ask[p].payload.expected # NoOne
      BY <1>2, ObjectsAssumption
    <3> QED BY <3>1, CommitFacts
  <2>4. ASSUME NEW i \in 1..n + 1, NEW v, v = commits'[i].payload.expected,
               NEW o, o = commits'[i].payload.object
        PROVE  Left(v, i, o)'
    <3>1. CASE i = n + 1
      <4>1. v = ask[p].payload.expected /\ o = Target(p)
        BY <1>1, <2>4, <3>1 DEF Target
      <4>2. v = pointer[o] /\ v # NoOne /\ o \in Object
        BY <1>2, <2>3, <4>1
      <4>3. Left(v, i, o)
        BY <2>2, <3>1, <4>2
      <4> QED BY <2>1, <4>3
    <3>2. CASE i # n + 1
      <4>1. i \in 1..n /\ v = commits[i].payload.expected /\ o = commits[i].payload.object
        BY <1>1, <2>4, <3>2
      <4> QED BY <2>1, <2>2, <4>1
    <3> QED BY <3>1, <3>2
  <2>5. ASSUME NEW o \in Object, NEW v, v = pointer'[o]
        PROVE  \/ v = NoOne /\ NoneBefore(n + 2, o)'
               \/ Left(v, n + 2, o)'
    <3>1. CASE o = Target(p)
      <4>1. JustBefore(n + 1, n + 2, o)'
        BY <1>1, <3>1 DEF JustBefore, Target
      <4>2. v = commits'[n + 1].payload.version /\ n + 1 \in 1..(n + 2) - 1
        BY <1>1, <2>3, <2>5, <3>1
      <4> QED BY <4>1, <4>2 DEF Left
    <3>2. CASE o # Target(p)
      <4>1. commits'[n + 1].payload.object # o
        BY <1>1, <3>2 DEF Target
      <4>2. v = pointer[o]
        BY <2>3, <2>5, <3>2
      <4>3. NoneBefore(n + 1, o) => NoneBefore(n + 2, o)'
        BY <1>1, <4>1 DEF NoneBefore
      <4>4. Left(v, n + 1, o) => Left(v, n + 2, o)'
        <5>1. CASE v = Null /\ NoneBefore(n + 1, o)
          BY <4>3, <5>1 DEF Left
        <5>2. ASSUME NEW j \in 1..(n + 1) - 1, JustBefore(j, n + 1, o), v = commits[j].payload.version
              PROVE  Left(v, n + 2, o)'
          <6>1. JustBefore(j, n + 2, o)'
            BY <1>1, <4>1, <5>2 DEF JustBefore
          <6>2. v = commits'[j].payload.version /\ j \in 1..(n + 2) - 1
            BY <1>1, <5>2
          <6> QED BY <6>1, <6>2 DEF Left
        <5> QED BY <5>1, <5>2 DEF Left
      <4> QED BY <2>2, <4>2, <4>3, <4>4
    <3> QED BY <3>1, <3>2
  <2>6. /\ \A i \in 1..n + 1 : Left(commits[i].payload.expected, i, commits[i].payload.object)'
        /\ \A o \in Object : \/ (pointer[o] = NoOne)' /\ NoneBefore(n + 2, o)'
                            \/ Left(pointer[o], n + 2, o)'
    BY <2>4, <2>5 DEF Left, NoneBefore, JustBefore
  <2>7. Len(commits') + 1 = n + 2
    BY <1>1
  <2> QED BY <1>1, <2>6, <2>7 DEF Chain, Left, NoneBefore, JustBefore
<1>8. Locks' /\ keyLock' \in [Key -> Proc \union {NoOne}]
      /\ pointerLock' \in [Object -> Proc \union {NoOne}]
  <2>1. /\ keyLock[ask[p].key] = p /\ pointerLock[Target(p)] = p
        /\ \A k \in Key : k # ask[p].key => operation'[k] = operation[k]
        /\ \A o \in Object : o # Target(p) => pointer'[o] = pointer[o]
        /\ pc'[p] = "return"
    BY CommitFacts
  <2>2. /\ \A k \in Key : keyLock[k] # p => operation'[k] = operation[k]
        /\ \A o \in Object : pointerLock[o] # p => pointer'[o] = pointer[o]
    BY <2>1
  <2>3. pc'[p] \in {"idle", "return"} /\ Unlock(p)
    BY <2>1 DEF CommitApproval
  <2> QED BY <1>3, <2>1, <2>2, <2>3, UnlockLemma
<1>9. TypeOK'
  <2>1. pc' \in [Proc -> {"idle", "reserve", "replay", "validate", "update", "commit", "return"}]
    <3>1. pc' = [pc EXCEPT ![p] = "return"] /\ ask' = ask
      BY CommitFacts
    <3> QED BY <3>1, MoveLemma
  <2>2. audit' \in SUBSET Nat
    BY <1>1, <1>6 DEF Rows
  <2>3. /\ commits' \in Seq(Commit) /\ pointer' \in [Object -> Version \union {Null, NoOne}]
        /\ operation' \in [Key -> [hash : Payload, commit : Nat] \union {NoOne}]
        /\ result' \in [Proc -> Answers] /\ ask' = ask /\ crashes' = crashes
    BY CommitFacts
  <2> QED BY <1>8, <2>1, <2>2, <2>3 DEF IndInv, TypeOK, Answers
<1>10. RowsGrow
  BY <1>0, <1>1, <1>2, <1>5 DEF RowsGrow
<1>11. Caller(p)'
  <2>1. /\ pc'[p] = "return" /\ ask' = ask /\ result'[p] = Committed(n + 1)
    BY <1>0, CommitFacts
  <2> QED BY <1>1, <1>2, <2>1 DEF Caller, Committed
<1>12. \A x \in Proc : Caller(x)'
  BY <1>3, <1>10, <1>11, CallersLemma
<1> QED BY <1>6, <1>7, <1>8, <1>9, <1>12 DEF IndInv

-------------------------------------------------------------------------------
\* The theorems.

LEMMA StutterStep == IndInv /\ UNCHANGED vars => IndInv'
<1> SUFFICES ASSUME IndInv, UNCHANGED vars PROVE IndInv'
  OBVIOUS
<1> USE DEF vars, rows, locks
<1>1. Rows' /\ Chain'
  BY QuietRows
<1> QED BY <1>1 DEF IndInv, TypeOK, Locks, Owns, Target, Caller

LEMMA NextInv == IndInv /\ [Next]_vars => IndInv'
<1> SUFFICES ASSUME IndInv, [Next]_vars PROVE IndInv'
  OBVIOUS
<1>1. ASSUME NEW p \in Proc, Step(p) PROVE IndInv'
  BY <1>1, ReserveStep, ReplayStep, ValidateStep, UpdatePointerStep, CommitApprovalStep,
     ReceiveStep DEF Step
<1> QED BY <1>1, RequestStep, CrashStep, InitializeStep, StutterStep DEF Next

LEMMA Invariance == Spec => []IndInv
BY InitInv, NextInv, PTL DEF Spec

\* No request changes what may be stored: every variable stays in its type (approved_state.py,
\* the tables of migration 0001).
THEOREM ApprovedTypes == Spec => []TypeOK
<1>1. IndInv => TypeOK
  BY DEF IndInv
<1> QED BY <1>1, Invariance, PTL

\* What is left by the commits before i is the version of the last of them.
LEMMA BeforeLemma ==
    ASSUME NEW i \in Nat, i <= Len(commits) + 1, NEW v, NEW o, Left(v, i, o),
           Len(commits) \in Nat, DOMAIN commits = 1..Len(commits)
    PROVE  v = ApprovedBefore(o, i)
<1> DEFINE earlier == {j \in Approvals(o) : j < i}
<1>1. \A j : j \in earlier <=> j \in 1..i - 1 /\ commits[j].payload.object = o
  BY DEF Approvals
<1>2. CASE v = Null /\ NoneBefore(i, o)
  <2>1. earlier = {}
    BY <1>1, <1>2 DEF NoneBefore
  <2> QED BY <1>2, <2>1 DEF ApprovedBefore
<1>3. ASSUME NEW j \in 1..i - 1, JustBefore(j, i, o), v = commits[j].payload.version
      PROVE  v = ApprovedBefore(o, i)
  <2> HIDE DEF earlier
  <2>1. j \in earlier /\ earlier # {}
    BY <1>1, <1>3 DEF JustBefore
  <2>2. \A m \in earlier : m \in Nat /\ j >= m
    <3> SUFFICES ASSUME NEW m \in earlier PROVE m \in Nat /\ j >= m
      OBVIOUS
    <3>1. m \in 1..i - 1 /\ commits[m].payload.object = o
      BY <1>1
    <3>2. m \notin j + 1..i - 1
      BY <1>3, <3>1 DEF JustBefore
    <3> QED BY <3>1, <3>2
  <2>3. Max(earlier) = j
    <3>1. \A x \in earlier : (\A y \in earlier : x >= y) => x = j
      BY <2>1, <2>2
    <3> QED BY <2>1, <2>2, <3>1 DEF Max
  <2>4. ApprovedBefore(o, i) =
            IF earlier = {} THEN Null ELSE commits[Max(earlier)].payload.version
    BY DEF ApprovedBefore, earlier
  <2> QED BY <1>3, <2>1, <2>3, <2>4
<1> QED BY <1>2, <1>3 DEF Left

\* The approvals of an object form a chain (the conditional UPDATE of _proceed_as_owner): no
\* approval is lost or overwritten unseen, however many callers and commits there are.
THEOREM ApprovedChain == Spec => []ApprovalsFormAChain
<1>1. ASSUME IndInv PROVE ApprovalsFormAChain
  <2>1. /\ Len(commits) \in Nat /\ DOMAIN commits = 1..Len(commits)
    BY <1>1, RowsOf DEF IndInv, TypeOK
  <2>2. ASSUME NEW o \in Object, NEW i \in Approvals(o)
        PROVE  commits[i].payload.expected = ApprovedBefore(o, i)
    <3>1. i \in 1..Len(commits) /\ commits[i].payload.object = o
      BY <2>1 DEF Approvals
    <3>2. Left(commits[i].payload.expected, i, o)
      BY <1>1, <3>1 DEF IndInv, Chain
    <3> QED BY <2>1, <3>1, <3>2, BeforeLemma
  <2>3. ASSUME NEW o \in Object, Approvals(o) = {}
        PROVE  pointer[o] \in {Null, NoOne}
    <3>1. \A j \in 1..Len(commits) : commits[j].payload.object # o
      BY <2>1, <2>3 DEF Approvals
    <3>2. pointer[o] = NoOne \/ Left(pointer[o], Len(commits) + 1, o)
      BY <1>1 DEF IndInv, Chain
    <3> QED BY <2>1, <3>1, <3>2 DEF Left, JustBefore
  <2>4. ASSUME NEW o \in Object, Approvals(o) # {}
        PROVE  pointer[o] = ApprovedBefore(o, Len(commits) + 1)
    <3>1. ~NoneBefore(Len(commits) + 1, o)
      BY <2>1, <2>4 DEF Approvals, NoneBefore
    <3>2. Left(pointer[o], Len(commits) + 1, o)
      BY <1>1, <3>1 DEF IndInv, Chain
    <3> QED BY <2>1, <3>2, BeforeLemma
  <2> QED BY <2>2, <2>3, <2>4 DEF ApprovalsFormAChain
<1> QED BY <1>1, Invariance, PTL

\* A key makes one commit, with the payload it was reserved for and an audit event, and nothing
\* of a transaction that was rolled back is in any of the three tables.
THEOREM ApprovedOncePerKey == Spec => []OneCommitPerKey
<1>1. ASSUME IndInv PROVE OneCommitPerKey
  <2>1. DOMAIN commits = 1..Len(commits)
    BY <1>1, RowsOf DEF IndInv, TypeOK
  <2> QED BY <1>1, <2>1 DEF IndInv, Rows, OneCommitPerKey
<1> QED BY <1>1, Invariance, PTL

-------------------------------------------------------------------------------
\* What a step may do to the rows.

\* Only the commit and the initialisation of a pointer write.
LEMMA WritersLemma ==
    ASSUME [Next]_vars
    PROVE  \/ UNCHANGED rows
           \/ \E p \in Proc : CommitApproval(p)
           \/ \E o \in Object : Initialize(o)
BY DEF Next, Step, Request, Reserve, Replay, Validate, UpdatePointer, Receive, Crash, rows, vars

\* The pointer of an object moves with the one commit that says from where and to where, and
\* commits are never rewritten.
THEOREM ApprovedPointer == Spec => PointerFollowsCommits
<1> DEFINE Follows ==
      /\ SubSeq(commits', 1, Len(commits)) = commits
      /\ \A o \in Object : pointer'[o] # pointer[o] =>
            \/ pointer[o] = NoOne /\ pointer'[o] = Null
            \/ /\ Len(commits') = Len(commits) + 1
               /\ commits'[Len(commits')].payload =
                     [object |-> o, version |-> pointer'[o], expected |-> pointer[o]]
<1>1. ASSUME IndInv, [Next]_vars PROVE Follows
  <2>1. commits \in Seq(Commit) /\ pointer \in [Object -> Version \union {Null, NoOne}]
    BY <1>1 DEF IndInv, TypeOK
  <2>2. CASE commits' = commits
    <3>1. SubSeq(commits, 1, Len(commits)) = commits
      BY <2>1, RowsOf, PrefixLemma
    <3>2. \A o \in Object : pointer'[o] # pointer[o] => pointer[o] = NoOne /\ pointer'[o] = Null
      <4>1. CASE UNCHANGED rows
        BY <4>1 DEF rows
      <4>2. ASSUME NEW p \in Proc, CommitApproval(p) PROVE FALSE
        <5>1. Len(commits') = Len(commits) + 1 /\ Len(commits) \in Nat
          BY <1>1, <4>2, CommitFacts
        <5> QED BY <2>2, <5>1
      <4>3. ASSUME NEW o \in Object, Initialize(o)
            PROVE  \A x \in Object : pointer'[x] # pointer[x] => pointer[x] = NoOne /\ pointer'[x] = Null
        BY <2>1, <4>3 DEF Initialize
      <4> QED BY <1>1, <4>1, <4>2, <4>3, WritersLemma
    <3> QED BY <2>2, <3>1, <3>2
  <2>3. ASSUME NEW p \in Proc, CommitApproval(p) PROVE Follows
    <3>1. /\ commits' \in Seq(Commit) /\ Len(commits) \in Nat /\ Len(commits') = Len(commits) + 1
          /\ \A i \in 1..Len(commits) : commits'[i] = commits[i]
          /\ commits'[Len(commits')] = ask[p] /\ ask[p].payload \in Payload
          /\ pointer[Target(p)] = ask[p].payload.expected
          /\ pointer'[Target(p)] = ask[p].payload.version
          /\ \A o \in Object : o # Target(p) => pointer'[o] = pointer[o]
      BY <1>1, <2>3, CommitFacts
    <3>2. SubSeq(commits', 1, Len(commits)) = commits
      BY <2>1, <3>1, PrefixLemma
    <3>3. ask[p].payload = [object |-> Target(p), version |-> ask[p].payload.version,
                            expected |-> ask[p].payload.expected]
      BY <3>1, ObjectsAssumption DEF Target
    <3> QED BY <3>1, <3>2, <3>3
  <2>4. ASSUME NEW o \in Object, Initialize(o) PROVE commits' = commits
    BY <2>4 DEF Initialize
  <2>5. UNCHANGED rows => commits' = commits
    BY DEF rows
  <2> QED BY <1>1, <2>2, <2>3, <2>4, <2>5, WritersLemma
<1>2. IndInv /\ [Next]_vars => [Follows]_vars
  BY <1>1
<1> QED BY <1>2, Invariance, PTL DEF Spec, PointerFollowsCommits

-------------------------------------------------------------------------------
\* The refinement of ExactlyOnce.

\* What is recorded under a key, and what a caller has been told.
RecordOf(k) ==
    IF operation[k] = NoOne THEN NoOne
    ELSE [payload |-> operation[k].hash, outcome |-> Seen(Committed(operation[k].commit))]

ToldOf(p) ==
    IF pc[p] = "return"
    THEN [key |-> ask[p].key, payload |-> ask[p].payload, outcome |-> Seen(result[p])]
    ELSE NoOne

LEMMA MappingLemma ==
    Record = [k \in Key |-> RecordOf(k)] /\ Told = [p \in Proc |-> ToldOf(p)]
BY DEF Record, RecordOf, Told, ToldOf

\* Commits that are there are not rewritten.
CommitsKept ==
    /\ Len(commits) \in Nat
    /\ \A i \in 1..Len(commits) : commits'[i] = commits[i]

LEMMA RefusalsLemma ==
    \A r \in Refusals \union {NoResult, IdempotencyConflict} : r[1] # "COMMITTED" /\ Seen(r) = r
<1>1. \A r \in Refusals : r[1] = "STATE_CONFLICT" \/ r[1] = "INVALID_OBJECT_VERSION"
  BY DEF Refusals
<1>2. NoResult[1] = "" /\ IdempotencyConflict[1] = "IDEMPOTENCY_CONFLICT"
  BY DEF NoResult, IdempotencyConflict
<1>3. \A r \in Refusals \union {NoResult, IdempotencyConflict} : r[1] # "COMMITTED"
  BY <1>1, <1>2
<1> QED BY <1>3 DEF Seen

\* What has been told to a caller stays what it was told.
LEMMA ToldLemma ==
    ASSUME IndInv, CommitsKept, NEW p \in Proc, \A x \in Proc \ {p} : Same(x),
           NEW t, t = ToldOf(p)'
    PROVE  Told' = [Told EXCEPT ![p] = t]
<1>1. ASSUME NEW x \in Proc \ {p} PROVE ToldOf(x)' = ToldOf(x)
  <2>1. pc'[x] = pc[x] /\ ask'[x] = ask[x] /\ result'[x] = result[x]
    BY DEF Same
  <2>2. Seen(result[x])' = Seen(result[x])
    <3>1. CASE result[x] \in {"COMMITTED"} \X (1..Len(commits))
      <4>1. result[x][1] = "COMMITTED" /\ result[x][2] \in 1..Len(commits)
        BY <3>1
      <4> QED BY <2>1, <4>1 DEF Seen, CommitsKept
    <3>2. CASE result[x] \in Refusals \union {NoResult, IdempotencyConflict}
      <4>1. result[x][1] # "COMMITTED"
        BY <3>2, RefusalsLemma
      <4> QED BY <2>1, <4>1 DEF Seen
    <3> QED BY <3>1, <3>2 DEF IndInv, Caller
  <2> QED BY <2>1, <2>2 DEF ToldOf
<1>2. Told = [x \in Proc |-> ToldOf(x)] /\ Told' = [x \in Proc |-> ToldOf(x)']
  BY DEF Told, ToldOf
<1> QED BY <1>1, <1>2

\* A step that writes no row records nothing.
LEMMA QuietOnce ==
    ASSUME IndInv, commits' = commits, operation' = operation
    PROVE  CommitsKept /\ Record' = Record
<1>1. Len(commits) \in Nat
  BY RowsOf DEF IndInv, TypeOK
<1> QED BY <1>1 DEF CommitsKept, Record, Seen

\* A step after which the caller has no answer, as before it, is not seen.
LEMMA UnseenLemma ==
    ASSUME IndInv, commits' = commits, operation' = operation, NEW p \in Proc,
           \A x \in Proc \ {p} : Same(x), pc[p] # "return", pc'[p] # "return"
    PROVE  UNCHANGED <<Record, Told>>
<1>1. ToldOf(p) = NoOne /\ ToldOf(p)' = NoOne
  BY DEF ToldOf
<1>2. Told' = [Told EXCEPT ![p] = NoOne]
  BY <1>1, QuietOnce, ToldLemma
<1>3. Told = [x \in Proc |-> ToldOf(x)]
  BY MappingLemma
<1>4. Told' = Told
  BY <1>1, <1>2, <1>3
<1> QED BY <1>4, QuietOnce

\* The answer to a repeated request is the recorded one.
LEMMA ReplayOnce ==
    ASSUME IndInv, NEW p \in Proc, Replay(p)
    PROVE  \E k \in Key, q \in Payload : Once!Repeat(p, k, q)
<1> DEFINE k == ask[p].key
           q == ask[p].payload
<1>1. /\ pc[p] = "replay" /\ pc' = [pc EXCEPT ![p] = "return"] /\ ask' = ask
      /\ commits' = commits /\ operation' = operation
      /\ \/ operation[k].hash = q /\ result' = [result EXCEPT ![p] = Committed(operation[k].commit)]
         \/ operation[k].hash # q /\ result' = [result EXCEPT ![p] = IdempotencyConflict]
  BY DEF Replay, Return, Goto, rows
<1>2. /\ pc'[p] = "return" /\ ask'[p] = ask[p] /\ k \in Key /\ q \in Payload
      /\ result \in [Proc -> Answers]
      /\ \A x \in Proc \ {p} : pc'[x] = pc[x] /\ ask'[x] = ask[x]
  BY <1>1, MoveLemma
<1> HIDE DEF k, q
<1>3. /\ \A x \in Proc \ {p} : Same(x)
      /\ result'[p] = IF operation[k].hash = q THEN Committed(operation[k].commit)
                      ELSE IdempotencyConflict
  BY <1>1, <1>2 DEF Same
<1>4. operation[k] # NoOne
  BY <1>1 DEF IndInv, Caller, k
<1>5. Record' = Record /\ Record[k] = RecordOf(k)
  BY <1>1, <1>2, QuietOnce, MappingLemma
<1>6. /\ Record[k].payload = operation[k].hash
      /\ Record[k].outcome = Seen(Committed(operation[k].commit))
  BY <1>4, <1>5 DEF RecordOf
<1>7. Record[k] # NoOne
  <2>1. /\ operation \in [Key -> [hash : Payload, commit : Nat] \union {NoOne}]
        /\ commits \in Seq(Commit)
    BY DEF IndInv, TypeOK
  <2>2. operation[k].commit \in 1..Len(commits) /\ operation[k].hash \in Payload
    BY <1>2, <1>4, <2>1 DEF IndInv, Rows
  <2>5. \A i \in 1..Len(commits) : commits[i] \in Commit
    BY <2>1, RowsOf
  <2>6. commits[operation[k].commit] \in Requests
    BY <2>2, <2>5 DEF Commit, Requests
  <2>3. Seen(Committed(operation[k].commit)) = <<"COMMITTED", commits[operation[k].commit]>>
    BY DEF Seen, Committed
  <2>4. RecordOf(k) \in [payload : Payload, outcome : {"COMMITTED"} \X [key : Key, payload : Payload]]
    BY <1>4, <2>2, <2>3, <2>6 DEF RecordOf, Requests
  <2> QED BY <1>5, <2>4, ObjectsAssumption
<1>8. Seen(result[p])' = IF Record[k].payload = q THEN Record[k].outcome ELSE IdempotencyConflict
  <2>1. CASE operation[k].hash = q
    <3>1. Seen(result[p])' = Seen(Committed(operation[k].commit))
      BY <1>1, <1>3, <2>1 DEF Seen
    <3> QED BY <1>6, <2>1, <3>1
  <2>2. CASE operation[k].hash # q
    <3>1. result'[p] = IdempotencyConflict /\ result'[p][1] # "COMMITTED"
      BY <1>3, <2>2, RefusalsLemma
    <3>2. Seen(result[p])' = IdempotencyConflict
      BY <3>1 DEF Seen
    <3> QED BY <1>6, <2>2, <3>2
  <2> QED BY <2>1, <2>2
<1>9. ToldOf(p)' = [key |-> k, payload |-> q,
                    outcome |-> IF Record[k].payload = q THEN Record[k].outcome
                                ELSE IdempotencyConflict]
  <2>1. (ToldOf(p) = [key |-> ask[p].key, payload |-> ask[p].payload, outcome |-> Seen(result[p])])'
    BY <1>2 DEF ToldOf
  <2>2. ask'[p].key = k /\ ask'[p].payload = q
    BY <1>2 DEF k, q
  <2> QED BY <1>8, <2>1, <2>2
<1>10. Told' = [Told EXCEPT ![p] = [key |-> k, payload |-> q,
                    outcome |-> IF Record[k].payload = q THEN Record[k].outcome
                                ELSE IdempotencyConflict]]
  BY <1>1, <1>3, <1>9, QuietOnce, ToldLemma
<1>11. Once!Repeat(p, k, q)
  BY <1>5, <1>7, <1>10 DEF Once!Repeat, Once!Answer
<1> QED BY <1>2, <1>11

\* A refusal is an answer that records nothing.
LEMMA RefuseOnce ==
    ASSUME IndInv, NEW p \in Proc, Owns(p), NEW r \in Refusals, Return(p, r),
           UNCHANGED <<rows, ask>>
    PROVE  \E k \in Key, q \in Payload : Once!Refuse(p, k, q)
<1> DEFINE k == ask[p].key
           q == ask[p].payload
<1>1. /\ pc[p] # "idle" /\ pc' = [pc EXCEPT ![p] = "return"] /\ ask' = ask
      /\ commits' = commits /\ operation' = operation /\ result' = [result EXCEPT ![p] = r]
  BY DEF Return, Goto, rows, Owns
<1>2. /\ pc'[p] = "return" /\ ask'[p] = ask[p] /\ k \in Key /\ q \in Payload
      /\ result \in [Proc -> Answers]
      /\ \A x \in Proc \ {p} : pc'[x] = pc[x] /\ ask'[x] = ask[x]
  BY <1>1, MoveLemma
<1>3. operation[k] = NoOne
  <2>1. keyLock[k] = p
    BY DEF IndInv, Locks
  <2> QED BY <1>2, <2>1, ObjectsAssumption DEF IndInv, Locks
<1> HIDE DEF k, q
<1>4. /\ \A x \in Proc \ {p} : Same(x)
      /\ result'[p] = r
  BY <1>1, <1>2 DEF Same
<1>5. Record' = Record /\ Record[k] = NoOne
  BY <1>1, <1>2, <1>3, QuietOnce, MappingLemma DEF RecordOf
<1>6. ToldOf(p)' = [key |-> k, payload |-> q, outcome |-> r]
  <2>1. (ToldOf(p) = [key |-> ask[p].key, payload |-> ask[p].payload, outcome |-> Seen(result[p])])'
    BY <1>2 DEF ToldOf
  <2>2. ask'[p].key = k /\ ask'[p].payload = q
    BY <1>2 DEF k, q
  <2>3. Seen(result[p])' = r
    <3>1. result'[p][1] # "COMMITTED"
      BY <1>4, RefusalsLemma
    <3> QED BY <1>4, <3>1 DEF Seen
  <2> QED BY <2>1, <2>2, <2>3
<1>7. Told' = [Told EXCEPT ![p] = [key |-> k, payload |-> q, outcome |-> r]]
  BY <1>1, <1>4, <1>6, QuietOnce, ToldLemma
<1>8. Once!Refuse(p, k, q)
  BY <1>5, <1>7 DEF Once!Refuse, Once!Answer
<1> QED BY <1>2, <1>8

\* A commit decides the key, and says so.
LEMMA CommitOnce ==
    ASSUME IndInv, NEW p \in Proc, CommitApproval(p)
    PROVE  \E k \in Key, q \in Payload : Once!Decide(p, k, q)
<1>1. PICK n \in Nat : n = Len(commits)
  BY CommitFacts
<1>2. PICK k \in Key, q \in Payload : k = ask[p].key /\ q = ask[p].payload
  BY CommitFacts
<1>3. PICK o : o = <<"COMMITTED", ask[p]>>
  OBVIOUS
<1>4. /\ operation[k] = NoOne /\ operation'[k] = [hash |-> q, commit |-> n + 1]
      /\ \A x \in Key : x # k => operation'[x] = operation[x]
      /\ \A i \in 1..n : commits'[i] = commits[i]
      /\ commits'[n + 1] = ask[p] /\ ask' = ask /\ ask[p] \in Requests
      /\ pc'[p] = "return" /\ result'[p] = Committed(n + 1)
      /\ \A x \in Proc \ {p} : Same(x)
  BY <1>1, <1>2, CommitFacts
<1>5. Seen(Committed(n + 1))' = o
  BY <1>3, <1>4 DEF Seen, Committed
<1>6. operation'[k] # NoOne
  <2>1. [hash |-> q, commit |-> n + 1] \in [hash : Payload, commit : Nat]
    BY <1>1
  <2> QED BY <1>4, <2>1, ObjectsAssumption
<1>7. RecordOf(k)' = [payload |-> q, outcome |-> o]
  <2>1. (RecordOf(k) = [payload |-> operation[k].hash,
                        outcome |-> Seen(Committed(operation[k].commit))])'
    BY <1>6 DEF RecordOf
  <2>2. operation'[k].hash = q /\ operation'[k].commit = n + 1
    BY <1>4
  <2>3. Seen(Committed(operation[k].commit))' = o
    BY <1>5, <2>2 DEF Seen, Committed
  <2> QED BY <2>1, <2>2, <2>3
<1>8. ASSUME NEW x \in Key, x # k PROVE RecordOf(x)' = RecordOf(x)
  <2>1. operation'[x] = operation[x]
    BY <1>4, <1>8
  <2>2. operation[x] # NoOne => operation[x].commit \in 1..n
    BY <1>1 DEF IndInv, Rows
  <2>3. operation[x] # NoOne =>
            Seen(Committed(operation[x].commit))' = Seen(Committed(operation[x].commit))
    BY <1>4, <2>1, <2>2 DEF Seen, Committed
  <2> QED BY <2>1, <2>3 DEF RecordOf
<1>9. Record' = [Record EXCEPT ![k] = [payload |-> q, outcome |-> o]]
  <2>1. Record = [x \in Key |-> RecordOf(x)] /\ Record' = [x \in Key |-> RecordOf(x)']
    BY DEF Record, RecordOf
  <2> QED BY <1>7, <1>8, <2>1
<1>10. Record[k] = NoOne
  BY <1>4, MappingLemma DEF RecordOf
<1>11. ToldOf(p)' = [key |-> k, payload |-> q, outcome |-> o]
  <2>1. (ToldOf(p) = [key |-> ask[p].key, payload |-> ask[p].payload, outcome |-> Seen(result[p])])'
    BY <1>4 DEF ToldOf
  <2>2. Seen(result[p])' = o
    BY <1>4, <1>5 DEF Seen, Committed
  <2> QED BY <1>2, <1>4, <2>1, <2>2
<1>12. Told' = [Told EXCEPT ![p] = [key |-> k, payload |-> q, outcome |-> o]]
  BY <1>1, <1>4, <1>11, ToldLemma DEF CommitsKept
<1>13. o \in {"COMMITTED"} \X [key : Key, payload : Payload]
  BY <1>3, <1>4 DEF Requests
<1>14. Once!Decide(p, k, q)
  BY <1>9, <1>10, <1>12, <1>13 DEF Once!Decide, Once!Answer
<1> QED BY <1>14

\* Who goes away takes the answer along.
LEMMA LeaveOnce ==
    ASSUME IndInv, NEW p \in Proc, Leave(p), UNCHANGED rows
    PROVE  Once!Leave(p)
<1>1. /\ pc' = [pc EXCEPT ![p] = "idle"] /\ ask' = [ask EXCEPT ![p] = NoOne]
      /\ result' = [result EXCEPT ![p] = NoResult] /\ commits' = commits /\ operation' = operation
  BY DEF Leave, Goto, rows
<1>2. pc \in [Proc -> {"idle", "reserve", "replay", "validate", "update", "commit", "return"}]
  BY DEF IndInv, TypeOK
<1>3. /\ result \in [Proc -> Answers] /\ ask \in [Proc -> [key : Key, payload : Payload] \union {NoOne}]
  BY DEF IndInv, TypeOK, Answers
<1>4. ToldOf(p)' = NoOne /\ \A x \in Proc \ {p} : Same(x)
  BY <1>1, <1>2, <1>3 DEF ToldOf, Same
<1> QED BY <1>1, <1>4, QuietOnce, ToldLemma DEF Once!Leave

\* Each step of the transactions is a step of ExactlyOnce, or is not seen.
LEMMA StepOnce ==
    ASSUME IndInv, NEW p \in Proc, Step(p) \/ Request(p) \/ Crash(p)
    PROVE  [Once!OnceNext]_(Once!onceVars)
<1> USE DEF rows, locks, Once!onceVars
<1>1. pc \in [Proc -> {"idle", "reserve", "replay", "validate", "update", "commit", "return"}]
  BY DEF IndInv, TypeOK
<1>2. CASE Request(p)
  <2>1. /\ pc[p] = "idle" /\ pc' = [pc EXCEPT ![p] = "reserve"]
        /\ commits' = commits /\ operation' = operation
        /\ \A x \in Proc \ {p} : ask'[x] = ask[x] /\ result'[x] = result[x]
    <3>1. ask \in [Proc -> [key : Key, payload : Payload] \union {NoOne}]
      BY DEF IndInv, TypeOK
    <3> QED BY <1>2, <3>1 DEF Request, Goto
  <2>2. pc'[p] # "return" /\ \A x \in Proc \ {p} : Same(x)
    BY <1>1, <2>1 DEF Same
  <2> QED BY <2>1, <2>2, UnseenLemma
<1>3. CASE Reserve(p)
  <2>1. /\ pc[p] = "reserve" /\ ask' = ask /\ result' = result
        /\ commits' = commits /\ operation' = operation
        /\ pc' = [pc EXCEPT ![p] = "validate"] \/ pc' = [pc EXCEPT ![p] = "replay"]
    BY <1>3 DEF Reserve, Goto
  <2>2. pc'[p] # "return" /\ \A x \in Proc \ {p} : Same(x)
    BY <1>1, <2>1 DEF Same
  <2> QED BY <2>1, <2>2, UnseenLemma
<1>4. CASE Replay(p)
  BY <1>4, ReplayOnce DEF Once!OnceNext
<1>5. CASE Validate(p)
  <2>1. CASE ObjectOf[ask[p].payload.version] # ask[p].payload.object
    <3>1. Owns(p) /\ Return(p, <<"INVALID_OBJECT_VERSION", 0>>) /\ UNCHANGED <<rows, ask>>
      BY <1>5, <2>1 DEF Validate, Owns
    <3> QED BY <3>1, RefuseOnce DEF Refusals, Once!OnceNext
  <2>2. CASE ObjectOf[ask[p].payload.version] = ask[p].payload.object
    <3>1. /\ pc[p] = "validate" /\ pc' = [pc EXCEPT ![p] = "update"] /\ ask' = ask
          /\ result' = result /\ commits' = commits /\ operation' = operation
      BY <1>5, <2>2 DEF Validate, Goto
    <3>2. pc'[p] # "return" /\ \A x \in Proc \ {p} : Same(x)
      BY <1>1, <3>1 DEF Same
    <3> QED BY <3>1, <3>2, UnseenLemma
  <2> QED BY <2>1, <2>2
<1>6. CASE UpdatePointer(p)
  <2>1. CASE pointer[Target(p)] # ask[p].payload.expected
    <3>1. Owns(p) /\ Return(p, <<"STATE_CONFLICT", 0>>) /\ UNCHANGED <<rows, ask>>
      BY <1>6, <2>1 DEF UpdatePointer, Owns, Target
    <3> QED BY <3>1, RefuseOnce DEF Refusals, Once!OnceNext
  <2>2. CASE pointer[Target(p)] = ask[p].payload.expected
    <3>1. /\ pc[p] = "update" /\ pc' = [pc EXCEPT ![p] = "commit"] /\ ask' = ask
          /\ result' = result /\ commits' = commits /\ operation' = operation
      BY <1>6, <2>2 DEF UpdatePointer, Goto, Target
    <3>2. pc'[p] # "return" /\ \A x \in Proc \ {p} : Same(x)
      BY <1>1, <3>1 DEF Same
    <3> QED BY <3>1, <3>2, UnseenLemma
  <2> QED BY <2>1, <2>2
<1>7. CASE CommitApproval(p)
  BY <1>7, CommitOnce DEF Once!OnceNext
<1>8. CASE Receive(p) \/ Crash(p)
  <2>1. Leave(p) /\ UNCHANGED rows
    BY <1>8 DEF Receive, Crash
  <2> QED BY <2>1, LeaveOnce DEF Once!OnceNext
<1> QED BY <1>2, <1>3, <1>4, <1>5, <1>6, <1>7, <1>8 DEF Step

\* commit_approved_state implements ExactlyOnce: the first request decided under a key decides
\* it for good, and everyone who repeats it is told of the same commit, crashes or not.
THEOREM ApprovedExactlyOnce == Spec => ExactlyOnceSpec
<1>1. Init => Once!OnceInit
  <2> SUFFICES ASSUME Init PROVE Once!OnceInit
    OBVIOUS
  <2>1. /\ \A k \in Key : RecordOf(k) = NoOne
        /\ \A p \in Proc : ToldOf(p) = NoOne
    BY DEF Init, RecordOf, ToldOf
  <2> QED BY <2>1, MappingLemma DEF Once!OnceInit
<1>2. IndInv /\ [Next]_vars => [Once!OnceNext]_(Once!onceVars)
  <2> SUFFICES ASSUME IndInv, [Next]_vars PROVE [Once!OnceNext]_(Once!onceVars)
    OBVIOUS
  <2>1. ASSUME NEW o \in Object, Initialize(o) PROVE UNCHANGED <<Record, Told>>
    BY <2>1 DEF Initialize, Record, Told, Seen
  <2>2. ASSUME UNCHANGED vars PROVE UNCHANGED <<Record, Told>>
    <3>1. /\ commits' = commits /\ operation' = operation
          /\ pc' = pc /\ ask' = ask /\ result' = result
      BY <2>2 DEF vars, rows
    <3> QED BY <3>1 DEF Record, Told, Seen
  <2> QED BY <2>1, <2>2, StepOnce DEF Next, Once!onceVars
<1> QED BY <1>1, <1>2, Invariance, PTL DEF Spec, ExactlyOnceSpec, Once!OnceSpec
=============================================================================
