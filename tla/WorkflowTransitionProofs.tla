----------------------- MODULE WorkflowTransitionProofs -----------------------
(***************************************************************************)
(* Proofs about WorkflowTransition, for any number of clients, executions  *)
(* of Phase C, objects, versions, keys, payloads and crashes.              *)
(***************************************************************************)
EXTENDS WorkflowTransition, SequenceFacts, TLAPS

-------------------------------------------------------------------------------
\* The inductive invariant.

StateConflict == <<"STATE_CONFLICT", 0>>

\* What clients ask, what Phase C asks, and the transitions that may be recorded.
Requests == [key : Key, payload : Payload]
ProducerRequests == [key : {NoOne}, payload : {ProducerPayload(v) : v \in Version}]
AnyRequest == [key : Key \union {NoOne}, payload : AnyPayload]

Places == {"idle", "reserve", "replay", "apply", "record", "return"}
Answers == Rejections \union {IdempotencyConflict, TaskTypeUnresolved, NoResult}
               \union ({"COMMITTED"} \X Nat)

\* Where a client owns the reservation of its key, uncommitted, and where a caller has
\* updated its version.
Owns(p) == p \in Client /\ pc[p] \in {"apply", "record"}
Updates(p) == pc[p] = "record" /\ result[p] = Committed(0)

Types ==
    /\ status \in [Version -> {EligiblePending, Draft}]
    /\ transitions \in Seq(AnyRequest)
    /\ DOMAIN operation = Key /\ operation = [k \in Key |-> operation[k]]
    /\ keyLock \in [Key -> Client \union {NoOne}]
    /\ versionLock \in [Version -> Caller \union {NoOne}]
    /\ pc \in [Caller -> Places]
    /\ ask \in [Caller -> AnyRequest \union {NoOne}]
    /\ result \in [Caller -> Answers]
    /\ crashes \in 0..MaxCrashes

\* The committed rows name each other.  A key that remembers a STATE_CONFLICT does so for a
\* request to leave ELIGIBLE_PENDING, and its version has left it.
Rows ==
    /\ \A i \in 1..Len(transitions) : transitions[i].key # NoOne =>
          /\ transitions[i] \in Requests
          /\ operation[transitions[i].key] =
                [hash |-> PayloadHash(transitions[i].payload), outcome |-> Committed(i)]
    /\ \A k \in Key : operation[k] # NoOne =>
          /\ operation[k].hash \in Hash
          /\ \/ operation[k].outcome \in Rejections
             \/ \E i \in 1..Len(transitions) :
                   operation[k].outcome = Committed(i) /\ transitions[i].key = k
          /\ operation[k].outcome = StateConflict =>
                status[operation[k].hash[2]] = Draft /\ operation[k].hash[3][1] = "ELIGIBLE_PENDING"

\* A key that somebody has reserved is not decided yet, and a version that somebody has
\* updated still has the status the transition starts from.
Locks ==
    /\ \A k \in Key : keyLock[k] # NoOne =>
          operation[k] = NoOne /\ Owns(keyLock[k]) /\ ask[keyLock[k]].key = k
    /\ \A p \in Caller : Owns(p) => keyLock[ask[p].key] = p
    /\ \A v \in Version : versionLock[v] # NoOne =>
          Updates(versionLock[v]) /\ ask[versionLock[v]].payload.version = v
    /\ \A p \in Caller : Updates(p) =>
          /\ versionLock[ask[p].payload.version] = p
          /\ status[ask[p].payload.version] = ask[p].payload.from
          /\ Acceptable(ask[p].payload)

\* Transition j is the one of its version that came just before position i.
JustBefore(j, i, v) ==
    /\ j \in 1..i - 1 /\ transitions[j].payload.version = v
    /\ \A m \in j + 1..i - 1 : transitions[m].payload.version # v

\* Nothing before position i is about the version.
NoneBefore(i, v) == \A j \in 1..i - 1 : transitions[j].payload.version # v

\* The status that the transitions before position i have left v in.
Left(s, i, v) ==
    \/ s = EligiblePending /\ NoneBefore(i, v)
    \/ \E j \in 1..i - 1 : JustBefore(j, i, v) /\ s = transitions[j].payload.to

Chain ==
    /\ \A i \in 1..Len(transitions) :
          Left(transitions[i].payload.from, i, transitions[i].payload.version)
    /\ \A v \in Version : Left(status[v], Len(transitions) + 1, v)

\* What one caller may rely on.
CallerInv(p) ==
    /\ pc[p] \in {"reserve", "replay", "apply", "record"} =>
          ask[p] \in IF p \in Client THEN Requests ELSE ProducerRequests
    /\ p \in Producer => pc[p] \notin {"reserve", "replay"}
    /\ pc[p] = "return" /\ p \in Client => ask[p] \in Requests \/ result[p] = TaskTypeUnresolved
    /\ pc[p] = "replay" => operation[ask[p].key] # NoOne
    /\ pc[p] \in {"idle", "reserve", "replay", "apply"} => result[p] = NoResult
    /\ pc[p] = "record" => result[p] \in Rejections \union {Committed(0)}
    /\ pc[p] = "return" =>
          result[p] \in Rejections \union {IdempotencyConflict, TaskTypeUnresolved}
                        \union ({"COMMITTED"} \X (1..Len(transitions)))
    /\ result[p] = StateConflict =>
          /\ ask[p] \in AnyRequest
          /\ status[ask[p].payload.version] = Draft /\ ask[p].payload.from # Draft
          /\ pc[p] = "record" => Acceptable(ask[p].payload)

IndInv == Types /\ Rows /\ Locks /\ Chain /\ \A p \in Caller : CallerInv(p)

-------------------------------------------------------------------------------
\* The constants of the module.

LEMMA StatesLemma ==
    /\ EligiblePending # Draft /\ EligiblePending[1] = "ELIGIBLE_PENDING" /\ Draft[1] = "DRAFT"
    /\ {EligiblePending, Draft} \subseteq KnownStates
<1>1. EligiblePending[1] = "ELIGIBLE_PENDING" /\ Draft[1] = "DRAFT"
  BY DEF EligiblePending, Draft
<1>2. EligiblePending # Draft
  <2>1. "ELIGIBLE_PENDING" # "DRAFT"
    OBVIOUS
  <2> QED BY <1>1, <2>1
<1>3. EligiblePending \in KnownStates /\ Draft \in KnownStates
  BY DEF KnownStates, EligiblePending, Draft
<1> QED BY <1>1, <1>2, <1>3

\* One transition is enabled.
LEMMA EnabledLemma ==
    ASSUME NEW q, Acceptable(q)
    PROVE  q.from = EligiblePending /\ q.to = Draft
<1>1. <<q.from, q.to>> = <<EligiblePending, Draft>>
  BY DEF Acceptable, EnabledTransitions
<1>2. <<q.from, q.to>>[1] = <<EligiblePending, Draft>>[1] /\ <<q.from, q.to>>[2] = <<EligiblePending, Draft>>[2]
  BY <1>1
<1> QED BY <1>2

\* Outcomes are told apart by their names.
LEMMA OutcomesLemma ==
    /\ \A r \in Rejections \union {IdempotencyConflict, TaskTypeUnresolved, NoResult} :
          r \in Answers /\ r[1] # "COMMITTED"
    /\ \A r \in Rejections : r # IdempotencyConflict /\ r # TaskTypeUnresolved /\ r # NoResult
    /\ IdempotencyConflict # TaskTypeUnresolved /\ NoResult # StateConflict
    /\ IdempotencyConflict # StateConflict /\ TaskTypeUnresolved # StateConflict
    /\ StateConflict \in Rejections
    /\ \A i \in Nat : /\ Committed(i) \in Answers /\ Committed(i) \notin Rejections
                      /\ Committed(i) # TaskTypeUnresolved /\ Committed(i) # StateConflict
                      /\ Committed(i)[1] = "COMMITTED" /\ Committed(i)[2] = i
<1>1. \A r \in Rejections : r[1] \in {"INVALID_OBJECT_VERSION", "UNKNOWN_STATE",
            "TRANSITION_NOT_ENABLED_THIS_ITERATION", "STATE_CONFLICT"}
  BY DEF Rejections
<1>2. /\ IdempotencyConflict[1] = "IDEMPOTENCY_CONFLICT" /\ NoResult[1] = ""
      /\ TaskTypeUnresolved[1] = "TASK_TYPE_UNRESOLVED" /\ StateConflict[1] = "STATE_CONFLICT"
  BY DEF IdempotencyConflict, TaskTypeUnresolved, NoResult, StateConflict
<1>3. \A i \in Nat : Committed(i)[1] = "COMMITTED" /\ Committed(i)[2] = i /\ Committed(i) \in Answers
  BY DEF Committed, Answers
<1>4. /\ StateConflict \in Rejections
      /\ Rejections \union {IdempotencyConflict, TaskTypeUnresolved, NoResult} \subseteq Answers
  BY DEF StateConflict, Rejections, Answers
<1>5. \A r \in Rejections : r[1] # "COMMITTED" /\ r[1] # "IDEMPOTENCY_CONFLICT" /\ r[1] # ""
                            /\ r[1] # "TASK_TYPE_UNRESOLVED"
  BY <1>1
<1>6. \A i \in Nat : Committed(i) \notin Rejections
  BY <1>3, <1>5
<1>7. \A r \in Rejections : r # IdempotencyConflict /\ r # TaskTypeUnresolved /\ r # NoResult
  BY <1>2, <1>5
<1>8. /\ IdempotencyConflict # TaskTypeUnresolved /\ NoResult # StateConflict
      /\ IdempotencyConflict # StateConflict /\ TaskTypeUnresolved # StateConflict
  BY <1>2
<1>9. \A r \in {IdempotencyConflict, TaskTypeUnresolved, NoResult} : r[1] # "COMMITTED"
  BY <1>2
<1>10. \A i \in Nat : Committed(i) # TaskTypeUnresolved /\ Committed(i) # StateConflict
  BY <1>2, <1>3
<1> QED BY <1>3, <1>4, <1>5, <1>6, <1>7, <1>8, <1>9, <1>10

\* What is refused without a lock is not a conflict.
LEMMA RefusedLemma ==
    \A q : Refused(q) \in Rejections /\ Refused(q) # StateConflict
<1> SUFFICES ASSUME NEW q PROVE Refused(q) \in Rejections /\ Refused(q) # StateConflict
  OBVIOUS
<1>1. Refused(q) \in {<<"INVALID_OBJECT_VERSION", 0>>, <<"UNKNOWN_STATE", 0>>,
                      <<"TRANSITION_NOT_ENABLED_THIS_ITERATION", 0>>}
  BY DEF Refused
<1>2. Refused(q)[1] # "STATE_CONFLICT"
  BY <1>1
<1>3. StateConflict[1] = "STATE_CONFLICT"
  BY DEF StateConflict
<1> QED BY <1>1, <1>2, <1>3 DEF Rejections

\* What is asked names a version, and its three texts are sequences of one kind.
LEMMA PayloadLemma ==
    ASSUME NEW q \in AnyPayload
    PROVE  /\ q.version \in Version
           /\ \E S : q.from \in Seq(S) /\ q.to \in Seq(S) /\ q.by \in Seq(S)
<1>1. CASE q \in Payload
  BY <1>1, TransitionAssumption DEF Text
<1>2. ASSUME NEW v \in Version, q = ProducerPayload(v)
      PROVE  /\ q.version \in Version
             /\ \E S : q.from \in Seq(S) /\ q.to \in Seq(S) /\ q.by \in Seq(S)
  <2> DEFINE S == {"ELIGIBLE_PENDING", "DRAFT", "agent_run"}
  <2>1. <<"ELIGIBLE_PENDING">> \in Seq(S) /\ <<"DRAFT">> \in Seq(S) /\ <<"agent_run">> \in Seq(S)
    BY OneElement
  <2> HIDE DEF S
  <2>2. q.version = v /\ q.from \in Seq(S) /\ q.to \in Seq(S) /\ q.by \in Seq(S)
    BY <1>2, <2>1 DEF ProducerPayload, EligiblePending, Draft
  <2> QED BY <2>2
<1> QED BY <1>1, <1>2 DEF AnyPayload

\* The hash of a request starts with the state it is to leave.
LEMMA HashLemma ==
    ASSUME NEW q \in AnyPayload
    PROVE  /\ PayloadHash(q)[2] = q.version
           /\ q.from = EligiblePending => PayloadHash(q)[3][1] = "ELIGIBLE_PENDING"
           /\ q.from = Draft => PayloadHash(q)[3][1] # "ELIGIBLE_PENDING"
<1>1. PICK S : q.from \in Seq(S) /\ q.to \in Seq(S) /\ q.by \in Seq(S)
  BY PayloadLemma
<1>2. PayloadHash(q)[2] = q.version /\ PayloadHash(q)[3] = q.from \o q.to \o q.by
  BY DEF PayloadHash
<1>3. ASSUME NEW s, q.from = <<s>>
      PROVE  (q.from \o q.to \o q.by)[1] = s
  <2>1. Len(q.from) > 0 /\ q.from[1] = s
    BY <1>3
  <2>2. q.from \o q.to \in Seq(S) /\ Len(q.from \o q.to) > 0 /\ (q.from \o q.to)[1] = s
    BY <1>1, <2>1, FirstOfConcat
  <2> QED BY <1>1, <2>2, FirstOfConcat
<1>4. "ELIGIBLE_PENDING" # "DRAFT"
  OBVIOUS
<1> QED BY <1>2, <1>3, <1>4 DEF EligiblePending, Draft

-------------------------------------------------------------------------------
\* Nobody has asked for anything yet.
LEMMA InitInv == Init => IndInv
<1> SUFFICES ASSUME Init PROVE IndInv
  OBVIOUS
<1>1. /\ status = [v \in Version |-> EligiblePending] /\ transitions = << >>
      /\ operation = [k \in Key |-> NoOne] /\ keyLock = [k \in Key |-> NoOne]
      /\ versionLock = [v \in Version |-> NoOne] /\ pc = [p \in Caller |-> "idle"]
      /\ ask = [p \in Caller |-> NoOne] /\ result = [p \in Caller |-> NoResult] /\ crashes = 0
  BY DEF Init
<1>2. Len(transitions) = 0
  BY <1>1
<1>3. Types
  <2>1. transitions \in Seq(AnyRequest)
    BY <1>1, EmptyTable
  <2>2. result \in [Caller -> Answers]
    BY <1>1, OutcomesLemma
  <2>3. crashes \in 0..MaxCrashes
    BY <1>1, TransitionAssumption
  <2> QED BY <1>1, <2>1, <2>2, <2>3 DEF Types, Places
<1>4. Rows /\ Chain
  BY <1>1, <1>2 DEF Rows, Chain, Left, NoneBefore
<1>5. Locks
  BY <1>1 DEF Locks, Owns, Updates
<1>6. ASSUME NEW p \in Caller PROVE CallerInv(p)
  <2>1. pc[p] = "idle" /\ result[p] = NoResult /\ NoResult # StateConflict
    BY <1>1, OutcomesLemma
  <2> QED BY <2>1 DEF CallerInv
<1> QED BY <1>3, <1>4, <1>5, <1>6 DEF IndInv

-------------------------------------------------------------------------------
\* What a step of one caller leaves to the others.

Same(x) == pc'[x] = pc[x] /\ ask'[x] = ask[x] /\ result'[x] = result[x]

\* Rows are added and never changed, and a version does not come back to where it started.
RowsGrow ==
    /\ Len(transitions) \in Nat /\ Len(transitions') \in Nat
    /\ Len(transitions) <= Len(transitions')
    /\ \A k \in Key : operation[k] # NoOne => operation'[k] # NoOne
    /\ \A v \in Version : status[v] = Draft => status'[v] = Draft

\* Whoever works on a request knows what it asks.
LEMMA WorkLemma ==
    ASSUME IndInv, NEW p \in Caller, pc[p] \in {"reserve", "replay", "apply", "record"}
    PROVE  /\ ask[p] \in AnyRequest /\ ask[p].payload \in AnyPayload
           /\ ask[p].payload.version \in Version
           /\ p \in Client => /\ ask[p] \in Requests /\ ask[p].key \in Key /\ ask[p].key # NoOne
                              /\ ask[p].payload \in Payload
           /\ p \notin Client => p \in Producer /\ ask[p].key = NoOne /\ ask[p].key \notin Key
<1>1. ask[p] \in IF p \in Client THEN Requests ELSE ProducerRequests
  BY DEF IndInv, CallerInv
<1>2. NoOne \notin Key
  BY TransitionAssumption
<1>3. CASE p \in Client
  <2>1. ask[p] \in Requests /\ ask[p].key \in Key /\ ask[p].payload \in Payload
    BY <1>1, <1>3 DEF Requests
  <2>2. ask[p] \in AnyRequest /\ ask[p].payload \in AnyPayload
    BY <2>1 DEF Requests, AnyRequest, AnyPayload
  <2> QED BY <1>2, <1>3, <2>1, <2>2, PayloadLemma
<1>4. CASE p \notin Client
  <2>1. ask[p] \in ProducerRequests /\ p \in Producer
    BY <1>1, <1>4 DEF Caller
  <2>2. ask[p].key = NoOne /\ ask[p] \in AnyRequest /\ ask[p].payload \in AnyPayload
    BY <2>1 DEF ProducerRequests, AnyRequest, AnyPayload
  <2> QED BY <1>2, <1>4, <2>1, <2>2, PayloadLemma
<1> QED BY <1>3, <1>4

\* What one caller relies on survives the steps of the others.
LEMMA CallerFrame ==
    ASSUME IndInv, NEW x \in Caller, Same(x), RowsGrow
    PROVE  CallerInv(x)'
<1> USE DEF Same
<1>1. CallerInv(x)
  BY DEF IndInv
<1>2. pc[x] = "replay" => operation'[ask[x].key] # NoOne
  <2> SUFFICES ASSUME pc[x] = "replay" PROVE operation'[ask[x].key] # NoOne
    OBVIOUS
  <2>1. x \in Client
    BY <1>1 DEF CallerInv, Caller
  <2> QED BY <1>1, <2>1, WorkLemma DEF CallerInv, RowsGrow
<1>3. result[x] = StateConflict => status'[ask[x].payload.version] = Draft
  <2> SUFFICES ASSUME result[x] = StateConflict PROVE status'[ask[x].payload.version] = Draft
    OBVIOUS
  <2>1. ask[x] \in AnyRequest /\ status[ask[x].payload.version] = Draft
    BY <1>1 DEF CallerInv
  <2>2. ask[x].payload.version \in Version
    BY <2>1, PayloadLemma DEF AnyRequest
  <2> QED BY <2>1, <2>2 DEF RowsGrow
<1>4. result[x] \in {"COMMITTED"} \X (1..Len(transitions)) =>
          result[x] \in {"COMMITTED"} \X (1..Len(transitions'))
  BY DEF RowsGrow
<1> HIDE DEF Same
<1>5. pc'[x] = pc[x] /\ ask'[x] = ask[x] /\ result'[x] = result[x]
  BY DEF Same
<1>6. pc[x] = "return" =>
          result[x] \in Rejections \union {IdempotencyConflict, TaskTypeUnresolved}
                        \union ({"COMMITTED"} \X (1..Len(transitions')))
  BY <1>1, <1>4 DEF CallerInv
<1>7. ProducerRequests' = ProducerRequests /\ Requests' = Requests
  BY DEF ProducerRequests, Requests, ProducerPayload
<1> QED BY <1>1, <1>2, <1>3, <1>5, <1>6 DEF CallerInv, Acceptable

LEMMA CallersLemma ==
    ASSUME IndInv, NEW p \in Caller, \A x \in Caller \ {p} : Same(x), RowsGrow, CallerInv(p)'
    PROVE  \A x \in Caller : CallerInv(x)'
BY CallerFrame

\* The rows are what they were.
LEMMA QuietRows ==
    ASSUME IndInv, UNCHANGED rows
    PROVE  Rows' /\ Chain' /\ RowsGrow
<1>1. Len(transitions) \in Nat
  BY RowsOf DEF IndInv, Types
<1>2. transitions' = transitions /\ operation' = operation /\ status' = status
  BY DEF rows
<1>3. Chain'
  BY <1>2 DEF IndInv, Chain, Left, NoneBefore, JustBefore
<1> QED BY <1>1, <1>2, <1>3 DEF IndInv, Rows, RowsGrow

\* Who owns nothing, before and after, disturbs no lock.
LEMMA QuietLocks ==
    ASSUME IndInv, NEW p \in Caller, \A x \in Caller \ {p} : Same(x),
           ~Owns(p), ~Owns(p)', ~Updates(p), ~Updates(p)', UNCHANGED <<rows, locks>>
    PROVE  Locks'
<1>1. /\ keyLock \in [Key -> Client \union {NoOne}]
      /\ versionLock \in [Version -> Caller \union {NoOne}]
  BY DEF IndInv, Types
<1>2. \A x \in Caller \ {p} : /\ pc'[x] = pc[x] /\ ask'[x] = ask[x] /\ result'[x] = result[x]
                              /\ Owns(x)' = Owns(x) /\ Updates(x)' = Updates(x)
  BY DEF Same, Owns, Updates
<1>3. \A k \in Key : keyLock[k] # NoOne => keyLock[k] \in Caller \ {p}
  BY <1>1 DEF IndInv, Locks, Caller
<1>4. \A v \in Version : versionLock[v] # NoOne => versionLock[v] \in Caller \ {p}
  BY <1>1 DEF IndInv, Locks
<1>5. /\ keyLock' = keyLock /\ versionLock' = versionLock
      /\ operation' = operation /\ status' = status
  BY DEF rows, locks
<1>6. ASSUME NEW k \in Key, keyLock'[k] # NoOne
      PROVE  operation'[k] = NoOne /\ (Owns(keyLock[k]))' /\ (ask[keyLock[k]].key = k)'
  <2>1. keyLock[k] \in Caller \ {p} /\ operation[k] = NoOne /\ Owns(keyLock[k])
        /\ ask[keyLock[k]].key = k
    BY <1>3, <1>5, <1>6 DEF IndInv, Locks
  <2> QED BY <1>2, <1>5, <2>1 DEF Owns
<1>7. ASSUME NEW v \in Version, versionLock'[v] # NoOne
      PROVE  (Updates(versionLock[v]))' /\ (ask[versionLock[v]].payload.version = v)'
  <2>1. versionLock[v] \in Caller \ {p} /\ Updates(versionLock[v])
        /\ ask[versionLock[v]].payload.version = v
    BY <1>4, <1>5, <1>7 DEF IndInv, Locks
  <2> QED BY <1>2, <1>5, <2>1 DEF Updates
<1>8. \A x \in Caller : Owns(x)' => (keyLock[ask[x].key] = x)'
  BY <1>2, <1>5 DEF IndInv, Locks
<1>9. ASSUME NEW x \in Caller, Updates(x)'
      PROVE  (/\ versionLock[ask[x].payload.version] = x
              /\ status[ask[x].payload.version] = ask[x].payload.from
              /\ Acceptable(ask[x].payload))'
  <2>1. x # p /\ Updates(x) /\ ask'[x] = ask[x]
    BY <1>2, <1>9
  <2> QED BY <1>5, <2>1 DEF IndInv, Locks, Acceptable
<1> QED BY <1>6, <1>7, <1>8, <1>9 DEF Locks

\* A step that ends a transaction leaves nothing of it locked.
LEMMA UnlockLemma ==
    ASSUME IndInv, NEW p \in Caller, Unlock(p), \A x \in Caller \ {p} : Same(x),
           pc'[p] \in {"idle", "return"},
           \A k \in Key : keyLock[k] # p => operation'[k] = operation[k],
           \A v \in Version : versionLock[v] # p => status'[v] = status[v]
    PROVE  /\ Locks'
           /\ keyLock' \in [Key -> Client \union {NoOne}]
           /\ versionLock' \in [Version -> Caller \union {NoOne}]
<1>1. /\ keyLock \in [Key -> Client \union {NoOne}]
      /\ versionLock \in [Version -> Caller \union {NoOne}]
  BY DEF IndInv, Types
<1>2. /\ \A k \in Key : keyLock'[k] = IF keyLock[k] = p THEN NoOne ELSE keyLock[k]
      /\ \A v \in Version : versionLock'[v] = IF versionLock[v] = p THEN NoOne ELSE versionLock[v]
      /\ keyLock' \in [Key -> Client \union {NoOne}]
      /\ versionLock' \in [Version -> Caller \union {NoOne}]
  BY <1>1 DEF Unlock
<1>3. ~Owns(p)' /\ ~Updates(p)'
  BY DEF Owns, Updates
<1>4. \A x \in Caller \ {p} : /\ pc'[x] = pc[x] /\ ask'[x] = ask[x] /\ result'[x] = result[x]
                              /\ Owns(x)' = Owns(x) /\ Updates(x)' = Updates(x)
  BY DEF Same, Owns, Updates
<1>5. ASSUME NEW k \in Key, keyLock'[k] # NoOne
      PROVE  operation'[k] = NoOne /\ (Owns(keyLock[k]))' /\ (ask[keyLock[k]].key = k)'
  <2>1. keyLock[k] # p /\ keyLock[k] # NoOne /\ keyLock'[k] = keyLock[k] /\ keyLock[k] \in Caller
    BY <1>1, <1>2, <1>5 DEF Caller
  <2>2. operation[k] = NoOne /\ Owns(keyLock[k]) /\ ask[keyLock[k]].key = k
    BY <2>1 DEF IndInv, Locks
  <2> QED BY <1>4, <2>1, <2>2 DEF Owns
<1>6. ASSUME NEW v \in Version, versionLock'[v] # NoOne
      PROVE  (Updates(versionLock[v]))' /\ (ask[versionLock[v]].payload.version = v)'
  <2>1. /\ versionLock[v] # p /\ versionLock[v] # NoOne
        /\ versionLock'[v] = versionLock[v] /\ versionLock[v] \in Caller
    BY <1>1, <1>2, <1>6
  <2>2. Updates(versionLock[v]) /\ ask[versionLock[v]].payload.version = v
    BY <2>1 DEF IndInv, Locks
  <2> QED BY <1>4, <2>1, <2>2 DEF Updates
<1>7. ASSUME NEW x \in Caller, Owns(x)'
      PROVE  (keyLock[ask[x].key] = x)'
  <2>1. x # p /\ Owns(x) /\ ask'[x] = ask[x]
    BY <1>3, <1>4, <1>7
  <2>2. keyLock[ask[x].key] = x /\ ask[x].key \in Key
    BY <2>1, WorkLemma DEF IndInv, Locks, Owns
  <2> QED BY <1>2, <2>1, <2>2
<1>8. ASSUME NEW x \in Caller, Updates(x)'
      PROVE  (/\ versionLock[ask[x].payload.version] = x
              /\ status[ask[x].payload.version] = ask[x].payload.from
              /\ Acceptable(ask[x].payload))'
  <2>1. x # p /\ Updates(x) /\ ask'[x] = ask[x]
    BY <1>3, <1>4, <1>8
  <2>2. /\ versionLock[ask[x].payload.version] = x /\ ask[x].payload.version \in Version
        /\ status[ask[x].payload.version] = ask[x].payload.from /\ Acceptable(ask[x].payload)
    BY <2>1, WorkLemma DEF IndInv, Locks, Updates
  <2> QED BY <1>2, <2>1, <2>2 DEF Acceptable
<1> QED BY <1>2, <1>5, <1>6, <1>7, <1>8 DEF Locks

-------------------------------------------------------------------------------
\* The actions.

\* A new request, of a client or of Phase C.
LEMMA AskStep ==
    ASSUME IndInv, NEW p \in Caller, pc[p] = "idle", NEW q, NEW l,
           ask' = [ask EXCEPT ![p] = q], Goto(p, l),
           \/ p \in Client /\ q \in Requests /\ l = "reserve"
           \/ p \in Producer /\ q \in ProducerRequests /\ l = "apply",
           UNCHANGED <<rows, locks, result, crashes>>
    PROVE  IndInv'
<1> USE DEF rows, locks
<1>1. /\ pc \in [Caller -> Places] /\ ask \in [Caller -> AnyRequest \union {NoOne}]
      /\ result[p] = NoResult
  BY DEF IndInv, Types, CallerInv
<1>2. q \in AnyRequest
  BY DEF AnyRequest, AnyPayload, Requests, ProducerRequests
<1>3. l \in Places /\ l \in {"reserve", "apply"}
  BY DEF Places
<1>4. /\ pc' = [pc EXCEPT ![p] = l] /\ pc'[p] = l /\ ask'[p] = q /\ result'[p] = NoResult
      /\ \A x \in Caller \ {p} : Same(x)
      /\ pc' \in [Caller -> Places] /\ ask' \in [Caller -> AnyRequest \union {NoOne}]
  BY <1>1, <1>2, <1>3 DEF Same, Goto
<1>5. Types'
  BY <1>4 DEF IndInv, Types
<1>6. Rows' /\ Chain' /\ RowsGrow
  BY QuietRows
<1>7. Locks'
  <2>1. p \in Producer => p \notin Client
    BY TransitionAssumption
  <2>2. ~Owns(p) /\ ~Owns(p)' /\ ~Updates(p) /\ ~Updates(p)'
    BY <1>3, <1>4, <2>1 DEF Owns, Updates
  <2> QED BY <1>4, <2>2, QuietLocks
<1>8. CallerInv(p)'
  <2>1. p \in Producer => p \notin Client
    BY TransitionAssumption
  <2> QED BY <1>3, <1>4, <2>1, OutcomesLemma DEF CallerInv, Requests, ProducerRequests
<1>9. \A x \in Caller : CallerInv(x)'
  BY <1>4, <1>6, <1>8, CallersLemma
<1> QED BY <1>5, <1>6, <1>7, <1>9 DEF IndInv

LEMMA RequestStep ==
    ASSUME IndInv, NEW p \in Client, Request(p)
    PROVE  IndInv'
<1>1. PICK q \in Requests : ask' = [ask EXCEPT ![p] = q]
  BY DEF Request, Requests
<1> QED BY <1>1, AskStep DEF Request, Caller

LEMMA PhaseCStep ==
    ASSUME IndInv, NEW p \in Producer, PhaseC(p)
    PROVE  IndInv'
<1>1. [key |-> NoOne, payload |-> ProducerPayload(TargetOf[p])] \in ProducerRequests
  BY TransitionAssumption DEF ProducerRequests
<1> QED BY <1>1, AskStep DEF PhaseC, Caller

\* The places, the requests and the answers of the callers.
LEMMA PlacesLemma ==
    ASSUME IndInv
    PROVE  /\ pc \in [Caller -> Places] /\ ask \in [Caller -> AnyRequest \union {NoOne}]
           /\ result \in [Caller -> Answers]
BY DEF IndInv, Types

LEMMA RequestUnknownTaskStep ==
    ASSUME IndInv, NEW p \in Client, RequestUnknownTask(p)
    PROVE  IndInv'
<1>1. p \in Caller /\ "return" \in Places /\ TaskTypeUnresolved \in Answers
  BY OutcomesLemma DEF Caller, Places
<1>2. /\ pc[p] = "idle" /\ pc' = [pc EXCEPT ![p] = "return"] /\ ask' = ask
      /\ result' = [result EXCEPT ![p] = TaskTypeUnresolved]
      /\ UNCHANGED <<rows, locks, crashes>>
  BY DEF RequestUnknownTask, Goto, Result
<1>3. /\ pc'[p] = "return" /\ result'[p] = TaskTypeUnresolved
      /\ pc' \in [Caller -> Places] /\ ask' \in [Caller -> AnyRequest \union {NoOne}]
      /\ result' \in [Caller -> Answers]
      /\ \A x \in Caller \ {p} : Same(x)
  <2>1. /\ pc \in [Caller -> Places] /\ ask \in [Caller -> AnyRequest \union {NoOne}]
        /\ result \in [Caller -> Answers]
    BY PlacesLemma
  <2> QED BY <1>1, <1>2, <2>1 DEF Same
<1>4. Types'
  BY <1>2, <1>3 DEF IndInv, Types, rows, locks
<1>5. Rows' /\ Chain' /\ RowsGrow
  BY <1>2, QuietRows
<1>6. Locks'
  BY <1>1, <1>2, <1>3, QuietLocks DEF Owns, Updates
<1>7. CallerInv(p)'
  BY <1>3, OutcomesLemma DEF CallerInv
<1>8. \A x \in Caller : CallerInv(x)'
  BY <1>1, <1>3, <1>5, <1>7, CallersLemma
<1> QED BY <1>4, <1>5, <1>6, <1>8 DEF IndInv

\* Only clients reserve and replay.
LEMMA ClientLemma ==
    ASSUME IndInv, NEW p \in Caller, pc[p] \in {"reserve", "replay"}
    PROVE  p \in Client
BY DEF IndInv, CallerInv, Caller

LEMMA ReserveStep ==
    ASSUME IndInv, NEW p \in Caller, Reserve(p)
    PROVE  IndInv'
<1> USE DEF rows, locks
<1>1. PICK k : k = ask[p].key
  OBVIOUS
<1>2. /\ pc[p] = "reserve" /\ keyLock[k] = NoOne
      /\ UNCHANGED <<rows, versionLock, ask, result, crashes>>
      /\ \/ /\ operation[k] = NoOne
            /\ keyLock' = [keyLock EXCEPT ![k] = p]
            /\ pc' = [pc EXCEPT ![p] = "apply"]
         \/ /\ operation[k] # NoOne
            /\ pc' = [pc EXCEPT ![p] = "replay"]
            /\ keyLock' = keyLock
  BY <1>1 DEF Reserve, Goto
<1>3. p \in Client /\ k \in Key /\ ask[p] \in Requests /\ result[p] = NoResult /\ NoOne \notin Client
  BY <1>1, <1>2, ClientLemma, WorkLemma, TransitionAssumption DEF IndInv, CallerInv
<1>4. /\ pc \in [Caller -> Places]
      /\ keyLock \in [Key -> Client \union {NoOne}]
      /\ versionLock \in [Version -> Caller \union {NoOne}]
  BY DEF IndInv, Types
<1>5. /\ \A x \in Caller \ {p} : Same(x) /\ pc'[x] = pc[x]
      /\ pc'[p] \in {"apply", "replay"} /\ ask' = ask /\ result' = result
      /\ pc' \in [Caller -> Places]
  BY <1>2, <1>4 DEF Same, Places
<1>6. Types'
  <2>1. keyLock' \in [Key -> Client \union {NoOne}]
    BY <1>2, <1>3, <1>4
  <2> QED BY <1>2, <1>5, <2>1 DEF IndInv, Types
<1>7. Rows' /\ Chain' /\ RowsGrow
  BY <1>2, QuietRows
<1>8. Locks'
  <2>1. ~Owns(p) /\ (Owns(p)' <=> operation[k] = NoOne)
    BY <1>2, <1>3, <1>4 DEF Owns
  <2>2. \A x \in Caller : Updates(x)' = Updates(x)
    BY <1>2, <1>5 DEF Updates
  <2>3. \A x \in Caller \ {p} : Owns(x)' = Owns(x)
    BY <1>5 DEF Owns
  <2>4. ASSUME NEW j \in Key, keyLock'[j] # NoOne
        PROVE  operation'[j] = NoOne /\ (Owns(keyLock[j]))' /\ (ask[keyLock[j]].key = j)'
    <3>1. CASE keyLock' = [keyLock EXCEPT ![k] = p] /\ operation[k] = NoOne /\ j = k
      <4>1. keyLock'[j] = p
        BY <1>3, <1>4, <3>1
      <4> QED BY <1>1, <1>2, <2>1, <3>1, <4>1 DEF Owns
    <3>2. CASE keyLock'[j] = keyLock[j]
      <4>1. keyLock[j] \in Caller /\ operation[j] = NoOne /\ Owns(keyLock[j])
            /\ ask[keyLock[j]].key = j
        BY <1>4, <2>4, <3>2 DEF IndInv, Locks, Caller
      <4>2. keyLock[j] # p
        BY <2>1, <4>1
      <4> QED BY <1>2, <1>5, <3>2, <4>1, <4>2 DEF Owns
    <3> QED BY <1>2, <1>4, <3>1, <3>2
  <2>5. ASSUME NEW x \in Caller, Owns(x)'
        PROVE  (keyLock[ask[x].key] = x)'
    <3>1. CASE x = p
      BY <1>1, <1>2, <1>3, <1>4, <2>1, <2>5, <3>1
    <3>2. CASE x # p
      <4>1. Owns(x)
        BY <2>3, <2>5, <3>2
      <4>2. keyLock[ask[x].key] = x /\ ask[x].key \in Key
        BY <4>1, WorkLemma DEF IndInv, Locks, Owns
      <4>3. ask[x].key # k
        BY <1>2, <1>3, <4>1, <4>2 DEF Owns
      <4> QED BY <1>2, <1>4, <4>2, <4>3
    <3> QED BY <3>1, <3>2
  <2>6. ASSUME NEW v \in Version, versionLock'[v] # NoOne
        PROVE  (Updates(versionLock[v]))' /\ (ask[versionLock[v]].payload.version = v)'
    <3>1. versionLock[v] \in Caller /\ Updates(versionLock[v])
          /\ ask[versionLock[v]].payload.version = v
      BY <1>2, <1>4, <2>6 DEF IndInv, Locks
    <3>2. (Updates(versionLock[v]))'
      <4>1. PICK u \in Caller : u = versionLock[v]
        BY <3>1
      <4>2. Updates(u)' /\ versionLock'[v] = u
        BY <1>2, <2>2, <3>1, <4>1
      <4> QED BY <4>2 DEF Updates
    <3> QED BY <1>2, <3>1, <3>2
  <2>7. ASSUME NEW x \in Caller, Updates(x)'
        PROVE  (/\ versionLock[ask[x].payload.version] = x
                /\ status[ask[x].payload.version] = ask[x].payload.from
                /\ Acceptable(ask[x].payload))'
    <3>1. Updates(x)
      BY <2>2, <2>7
    <3> QED BY <1>2, <3>1 DEF IndInv, Locks, Acceptable
  <2> QED BY <2>4, <2>5, <2>6, <2>7 DEF Locks
<1>9. CallerInv(p)'
  <2>1. ask'[p] \in Requests /\ result'[p] = NoResult /\ NoResult # StateConflict
    BY <1>3, <1>5, OutcomesLemma
  <2>2. p \in Client /\ p \notin Producer
    BY <1>3, TransitionAssumption
  <2>3. pc'[p] = "replay" => operation'[ask'[p].key] # NoOne
    BY <1>1, <1>2, <1>4
  <2> QED BY <1>5, <2>1, <2>2, <2>3 DEF CallerInv, Requests
<1>10. \A x \in Caller : CallerInv(x)'
  BY <1>5, <1>7, <1>9, CallersLemma
<1> QED BY <1>6, <1>7, <1>8, <1>10 DEF IndInv

LEMMA ReplayStep ==
    ASSUME IndInv, NEW p \in Caller, Replay(p)
    PROVE  IndInv'
<1>1. PICK k, h : k = ask[p].key /\ h = PayloadHash(ask[p].payload)
  OBVIOUS
<1>2. /\ pc[p] = "replay" /\ pc' = [pc EXCEPT ![p] = "return"] /\ ask' = ask
      /\ UNCHANGED <<rows, locks, crashes>>
      /\ \/ operation[k].hash = h /\ result' = [result EXCEPT ![p] = operation[k].outcome]
         \/ result' = [result EXCEPT ![p] = IdempotencyConflict]
  BY <1>1 DEF Replay, Result, Goto
<1>3. p \in Client /\ k \in Key /\ ask[p] \in Requests /\ ask[p] \in AnyRequest
      /\ ask[p].payload \in AnyPayload
  BY <1>1, <1>2, ClientLemma, WorkLemma
<1>4. operation[k] # NoOne /\ Len(transitions) \in Nat
  BY <1>1, <1>2, RowsOf DEF IndInv, CallerInv, Types
<1>5. operation[k].outcome \in Rejections \union ({"COMMITTED"} \X (1..Len(transitions)))
      /\ operation[k].outcome \in Answers
  <2>1. CASE operation[k].outcome \in Rejections
    BY <2>1, OutcomesLemma
  <2>2. ASSUME NEW i \in 1..Len(transitions), operation[k].outcome = Committed(i)
        PROVE  operation[k].outcome \in {"COMMITTED"} \X (1..Len(transitions))
               /\ operation[k].outcome \in Answers
    BY <1>4, <2>2, OutcomesLemma DEF Committed
  <2> QED BY <1>3, <1>4, <2>1, <2>2 DEF IndInv, Rows
<1>6. /\ pc'[p] = "return" /\ ask'[p] = ask[p]
      /\ \/ operation[k].hash = h /\ result'[p] = operation[k].outcome
         \/ result'[p] = IdempotencyConflict
      /\ pc' \in [Caller -> Places] /\ result' \in [Caller -> Answers]
      /\ \A x \in Caller \ {p} : Same(x)
  <2>1. /\ pc \in [Caller -> Places] /\ result \in [Caller -> Answers]
        /\ IdempotencyConflict \in Answers /\ "return" \in Places
    BY PlacesLemma, OutcomesLemma DEF Places
  <2> QED BY <1>2, <1>5, <2>1 DEF Same
<1>7. Types'
  BY <1>2, <1>6 DEF IndInv, Types, rows, locks
<1>8. Rows' /\ Chain' /\ RowsGrow
  BY <1>2, QuietRows
<1>9. Locks'
  BY <1>2, <1>6, QuietLocks DEF Owns, Updates
<1>10. CallerInv(p)'
  <2>1. result'[p] \in Rejections \union {IdempotencyConflict, TaskTypeUnresolved}
                          \union ({"COMMITTED"} \X (1..Len(transitions')))
    BY <1>2, <1>5, <1>6 DEF rows
  <2>2. result'[p] = StateConflict =>
            /\ ask'[p] \in AnyRequest /\ status'[ask'[p].payload.version] = Draft
            /\ ask'[p].payload.from # Draft
    <3> SUFFICES ASSUME result'[p] = StateConflict
                 PROVE  /\ ask'[p] \in AnyRequest /\ status'[ask'[p].payload.version] = Draft
                        /\ ask'[p].payload.from # Draft
      OBVIOUS
    <3>1. operation[k].hash = h /\ operation[k].outcome = StateConflict
      BY <1>6, OutcomesLemma
    <3>2. status[h[2]] = Draft /\ h[3][1] = "ELIGIBLE_PENDING"
      BY <1>3, <1>4, <3>1 DEF IndInv, Rows
    <3>3. h[2] = ask[p].payload.version /\ ask[p].payload.from # Draft
      BY <1>1, <1>3, <3>2, HashLemma
    <3> QED BY <1>2, <1>3, <1>6, <3>2, <3>3 DEF rows
  <2> QED BY <1>3, <1>6, <2>1, <2>2 DEF CallerInv, Requests
<1>11. \A x \in Caller : CallerInv(x)'
  BY <1>6, <1>8, <1>10, CallersLemma
<1> QED BY <1>7, <1>8, <1>9, <1>11 DEF IndInv

\* The check without an update: whoever owned a key still does, nobody updates a version.
LEMMA RefuseStep ==
    ASSUME IndInv, NEW p \in Caller, pc[p] = "apply", NEW r \in Rejections,
           Goto(p, "record"), Result(p, r), UNCHANGED <<rows, locks, ask, crashes>>,
           r = StateConflict => /\ Acceptable(ask[p].payload)
                                /\ status[ask[p].payload.version] # ask[p].payload.from
    PROVE  IndInv'
<1> USE DEF rows, locks
<1>1. /\ pc \in [Caller -> Places] /\ result \in [Caller -> Answers] /\ "record" \in Places
      /\ r \in Answers /\ r # Committed(0)
      /\ pc' = [pc EXCEPT ![p] = "record"] /\ result' = [result EXCEPT ![p] = r] /\ ask' = ask
  BY PlacesLemma, OutcomesLemma DEF Places, Goto, Result
<1>2. /\ pc'[p] = "record" /\ result'[p] = r /\ ask'[p] = ask[p]
      /\ pc' \in [Caller -> Places] /\ result' \in [Caller -> Answers]
      /\ \A x \in Caller \ {p} : Same(x)
  BY <1>1 DEF Same
<1>3. Types'
  BY <1>1, <1>2 DEF IndInv, Types
<1>4. Rows' /\ Chain' /\ RowsGrow
  BY QuietRows
<1>5. Locks'
  <2>1. \A x \in Caller : /\ Owns(x)' = Owns(x) /\ Updates(x)' = Updates(x) /\ ask'[x] = ask[x]
    BY <1>1, <1>2 DEF Owns, Updates, Same
  <2>2. /\ keyLock \in [Key -> Client \union {NoOne}]
        /\ versionLock \in [Version -> Caller \union {NoOne}]
    BY DEF IndInv, Types
  <2>3. ASSUME NEW k \in Key, keyLock'[k] # NoOne
        PROVE  operation'[k] = NoOne /\ (Owns(keyLock[k]))' /\ (ask[keyLock[k]].key = k)'
    <3>1. PICK u \in Caller : u = keyLock[k]
      BY <2>2, <2>3 DEF Caller
    <3>2. operation[k] = NoOne /\ Owns(u) /\ ask[u].key = k
      BY <2>3, <3>1 DEF IndInv, Locks
    <3>3. Owns(u)' /\ keyLock'[k] = u
      BY <2>1, <3>1, <3>2
    <3> QED BY <1>1, <3>2, <3>3 DEF Owns
  <2>4. ASSUME NEW v \in Version, versionLock'[v] # NoOne
        PROVE  (Updates(versionLock[v]))' /\ (ask[versionLock[v]].payload.version = v)'
    <3>1. PICK u \in Caller : u = versionLock[v]
      BY <2>2, <2>4
    <3>2. Updates(u) /\ ask[u].payload.version = v
      BY <2>4, <3>1 DEF IndInv, Locks
    <3>3. Updates(u)' /\ versionLock'[v] = u
      BY <2>1, <3>1, <3>2
    <3> QED BY <1>1, <3>2, <3>3 DEF Updates
  <2>5. \A x \in Caller : Owns(x)' => (keyLock[ask[x].key] = x)'
    BY <1>1, <2>1 DEF IndInv, Locks
  <2>6. ASSUME NEW x \in Caller, Updates(x)'
        PROVE  (/\ versionLock[ask[x].payload.version] = x
                /\ status[ask[x].payload.version] = ask[x].payload.from
                /\ Acceptable(ask[x].payload))'
    <3>1. Updates(x)
      BY <2>1, <2>6
    <3> QED BY <1>1, <3>1 DEF IndInv, Locks, Acceptable
  <2> QED BY <2>3, <2>4, <2>5, <2>6 DEF Locks
<1>6. CallerInv(p)'
  <2>1. /\ ask[p] \in IF p \in Client THEN Requests ELSE ProducerRequests
        /\ ask[p] \in AnyRequest /\ ask[p].payload.version \in Version
    BY WorkLemma DEF IndInv, CallerInv
  <2>2. r = StateConflict => /\ status[ask[p].payload.version] = Draft
                             /\ ask[p].payload.from # Draft /\ Acceptable(ask[p].payload)
    <3> SUFFICES ASSUME r = StateConflict
                 PROVE  /\ status[ask[p].payload.version] = Draft
                        /\ ask[p].payload.from # Draft /\ Acceptable(ask[p].payload)
      OBVIOUS
    <3>1. ask[p].payload.from = EligiblePending /\ EligiblePending # Draft
      BY EnabledLemma, StatesLemma
    <3>2. status[ask[p].payload.version] \in {EligiblePending, Draft}
      BY <2>1 DEF IndInv, Types
    <3> QED BY <3>1, <3>2
  <2>3. ask[p].payload = ask'[p].payload /\ status' = status
    BY <1>2
  <2> QED BY <1>2, <2>1, <2>2, <2>3 DEF CallerInv, Requests, ProducerRequests, ProducerPayload, Acceptable
<1>7. \A x \in Caller : CallerInv(x)'
  BY <1>2, <1>4, <1>6, CallersLemma
<1> QED BY <1>3, <1>4, <1>5, <1>7 DEF IndInv

\* The UPDATE that finds the status it expects.
LEMMA UpdateStep ==
    ASSUME IndInv, NEW p \in Caller, pc[p] = "apply", NEW v, v = ask[p].payload.version,
           Acceptable(ask[p].payload), status[v] = ask[p].payload.from,
           versionLock[v] = NoOne, versionLock' = [versionLock EXCEPT ![v] = p],
           Goto(p, "record"), Result(p, Committed(0)), UNCHANGED <<rows, keyLock, ask, crashes>>
    PROVE  IndInv'
<1> USE DEF rows
<1>1. /\ pc \in [Caller -> Places] /\ result \in [Caller -> Answers] /\ "record" \in Places
      /\ Committed(0) \in Answers /\ Committed(0) # StateConflict
      /\ pc' = [pc EXCEPT ![p] = "record"] /\ result' = [result EXCEPT ![p] = Committed(0)]
      /\ ask' = ask
  BY PlacesLemma, OutcomesLemma DEF Places, Goto, Result
<1>2. /\ pc'[p] = "record" /\ result'[p] = Committed(0) /\ ask'[p] = ask[p]
      /\ pc' \in [Caller -> Places] /\ result' \in [Caller -> Answers]
      /\ \A x \in Caller \ {p} : Same(x)
  BY <1>1 DEF Same
<1>3. /\ v \in Version /\ NoOne \notin Caller
      /\ keyLock \in [Key -> Client \union {NoOne}]
      /\ versionLock \in [Version -> Caller \union {NoOne}]
  BY WorkLemma, TransitionAssumption DEF IndInv, Types, Caller
<1>4. versionLock'[v] = p /\ versionLock' \in [Version -> Caller \union {NoOne}]
      /\ \A w \in Version : w # v => versionLock'[w] = versionLock[w]
  BY <1>3
<1>5. Types'
  BY <1>1, <1>2, <1>4 DEF IndInv, Types
<1>6. Rows' /\ Chain' /\ RowsGrow
  BY QuietRows
<1>7. Locks'
  <2>1. /\ \A x \in Caller : Owns(x)' = Owns(x) /\ ask'[x] = ask[x]
        /\ \A x \in Caller \ {p} : Updates(x)' = Updates(x)
        /\ Updates(p)' /\ ~Updates(p)
    BY <1>1, <1>2 DEF Owns, Updates, Same
  <2>2. ASSUME NEW k \in Key, keyLock'[k] # NoOne
        PROVE  operation'[k] = NoOne /\ (Owns(keyLock[k]))' /\ (ask[keyLock[k]].key = k)'
    <3>1. PICK u \in Caller : u = keyLock[k]
      BY <1>3, <2>2 DEF Caller
    <3>2. operation[k] = NoOne /\ Owns(u) /\ ask[u].key = k
      BY <2>2, <3>1 DEF IndInv, Locks
    <3>3. Owns(u)' /\ keyLock'[k] = u
      BY <2>1, <3>1, <3>2
    <3> QED BY <1>1, <3>2, <3>3 DEF Owns
  <2>3. ASSUME NEW w \in Version, versionLock'[w] # NoOne
        PROVE  (Updates(versionLock[w]))' /\ (ask[versionLock[w]].payload.version = w)'
    <3>1. CASE w = v
      BY <1>1, <1>4, <2>1, <3>1 DEF Updates
    <3>2. CASE w # v
      <4>1. PICK u \in Caller : u = versionLock[w] /\ versionLock'[w] = u
        BY <1>3, <1>4, <2>3, <3>2
      <4>2. Updates(u) /\ ask[u].payload.version = w
        BY <1>4, <2>3, <3>2, <4>1 DEF IndInv, Locks
      <4>3. Updates(u)'
        BY <2>1, <4>2
      <4> QED BY <1>1, <4>1, <4>2, <4>3 DEF Updates
    <3> QED BY <3>1, <3>2
  <2>4. \A x \in Caller : Owns(x)' => (keyLock[ask[x].key] = x)'
    BY <1>1, <2>1 DEF IndInv, Locks
  <2>5. ASSUME NEW x \in Caller, Updates(x)'
        PROVE  (/\ versionLock[ask[x].payload.version] = x
                /\ status[ask[x].payload.version] = ask[x].payload.from
                /\ Acceptable(ask[x].payload))'
    <3>1. CASE x = p
      BY <1>1, <1>4, <3>1 DEF Acceptable
    <3>2. CASE x # p
      <4>1. Updates(x) /\ ask[x].payload.version \in Version
        BY <2>1, <2>5, <3>2, WorkLemma DEF Updates
      <4>2. /\ versionLock[ask[x].payload.version] = x
            /\ status[ask[x].payload.version] = ask[x].payload.from
            /\ Acceptable(ask[x].payload)
        BY <4>1 DEF IndInv, Locks
      <4>3. ask[x].payload.version # v
        BY <1>3, <4>2
      <4> QED BY <1>1, <1>4, <4>1, <4>2, <4>3 DEF Acceptable
    <3> QED BY <3>1, <3>2
  <2> QED BY <2>2, <2>3, <2>4, <2>5 DEF Locks
<1>8. CallerInv(p)'
  <2>1. ask[p] \in IF p \in Client THEN Requests ELSE ProducerRequests
    BY DEF IndInv, CallerInv
  <2> QED BY <1>1, <1>2, <2>1 DEF CallerInv, Requests, ProducerRequests, ProducerPayload
<1>9. \A x \in Caller : CallerInv(x)'
  BY <1>2, <1>6, <1>8, CallersLemma
<1> QED BY <1>5, <1>6, <1>7, <1>9 DEF IndInv

LEMMA ApplyStep ==
    ASSUME IndInv, NEW p \in Caller, Apply(p)
    PROVE  IndInv'
<1>1. PICK q : q = ask[p].payload
  OBVIOUS
<1>2. /\ pc[p] = "apply" /\ Goto(p, "record") /\ UNCHANGED <<rows, keyLock, ask, crashes>>
      /\ \/ /\ Acceptable(q) /\ status[q.version] = q.from
            /\ versionLock[q.version] = NoOne
            /\ versionLock' = [versionLock EXCEPT ![q.version] = p]
            /\ Result(p, Committed(0))
         \/ /\ Acceptable(q) /\ status[q.version] # q.from
            /\ Result(p, <<"STATE_CONFLICT", 0>>)
            /\ versionLock' = versionLock
         \/ /\ ~Acceptable(q)
            /\ Result(p, Refused(q))
            /\ versionLock' = versionLock
  BY <1>1 DEF Apply
<1>3. CASE Acceptable(q) /\ status[q.version] = q.from
  BY <1>1, <1>2, <1>3, UpdateStep
<1>4. CASE Acceptable(q) /\ status[q.version] # q.from
  <2>1. Result(p, StateConflict) /\ StateConflict \in Rejections /\ UNCHANGED <<rows, locks, ask, crashes>>
    BY <1>2, <1>4, OutcomesLemma DEF StateConflict, locks
  <2> QED BY <1>1, <1>2, <1>4, <2>1, RefuseStep
<1>5. CASE ~Acceptable(q)
  <2>1. Result(p, Refused(q)) /\ UNCHANGED <<rows, locks, ask, crashes>>
    BY <1>2, <1>5 DEF locks
  <2> QED BY <1>2, <2>1, RefusedLemma, RefuseStep
<1> QED BY <1>3, <1>4, <1>5

\* A decision is recorded under the key of a client, and nowhere for Phase C.
LEMMA DecidedLemma ==
    ASSUME IndInv, NEW p \in Caller, pc[p] = "record", NEW o, Decided(p, o)
    PROVE  /\ DOMAIN operation' = Key /\ operation' = [k \in Key |-> operation'[k]]
           /\ p \in Client => /\ operation[ask[p].key] = NoOne
                              /\ operation'[ask[p].key] = [hash |-> PayloadHash(ask[p].payload),
                                                           outcome |-> o]
           /\ \A k \in Key : p \notin Client \/ k # ask[p].key => operation'[k] = operation[k]
           /\ \A k \in Key : keyLock[k] # p => operation'[k] = operation[k]
           /\ \A k \in Key : operation[k] # NoOne => operation'[k] = operation[k]
<1>1. DOMAIN operation = Key /\ operation = [k \in Key |-> operation[k]]
  BY DEF IndInv, Types
<1>2. CASE p \in Client
  <2>1. ask[p].key \in Key /\ ask[p].key # NoOne
    BY <1>2, WorkLemma
  <2>2. operation' = [operation EXCEPT ![ask[p].key] =
                         [hash |-> PayloadHash(ask[p].payload), outcome |-> o]]
    BY <2>1 DEF Decided
  <2>3. keyLock[ask[p].key] = p /\ NoOne # p
    BY <1>2, TransitionAssumption DEF IndInv, Locks, Owns
  <2>4. operation[ask[p].key] = NoOne
    BY <2>1, <2>3 DEF IndInv, Locks
  <2> HIDE DEF Decided
  <2>5. /\ DOMAIN operation' = Key /\ operation' = [k \in Key |-> operation'[k]]
        /\ operation'[ask[p].key] = [hash |-> PayloadHash(ask[p].payload), outcome |-> o]
        /\ \A k \in Key : k # ask[p].key => operation'[k] = operation[k]
    BY <1>1, <2>1, <2>2
  <2> QED BY <1>2, <2>3, <2>4, <2>5
<1>3. CASE p \notin Client
  <2>1. operation' = operation
    BY <1>3, WorkLemma DEF Decided
  <2> QED BY <1>1, <1>3, <2>1
<1> QED BY <1>2, <1>3

\* A recorded decision is a row.
LEMMA RowLemma ==
    /\ \A q \in Payload : PayloadHash(q) \in Hash
    /\ \A h \in Hash, o \in Rejections \union ({"COMMITTED"} \X Nat) :
          [hash |-> h, outcome |-> o] # NoOne
<1>1. \A h \in Hash, o \in Rejections \union ({"COMMITTED"} \X Nat) :
         [hash |-> h, outcome |-> o] \in [hash : Hash, outcome : Rejections \union ({"COMMITTED"} \X Nat)]
  OBVIOUS
<1> QED BY <1>1, NoRowAssumption DEF Hash

\* A rejection, committed for a client and rolled back for Phase C.
LEMMA RecordRejectionStep ==
    ASSUME IndInv, NEW p \in Caller, RecordRejection(p)
    PROVE  IndInv'
<1>1. /\ pc[p] = "record" /\ result[p] # Committed(0) /\ Decided(p, result[p])
      /\ pc' = [pc EXCEPT ![p] = "return"] /\ Unlock(p)
      /\ status' = status /\ transitions' = transitions
      /\ ask' = ask /\ result' = result /\ crashes' = crashes
  BY DEF RecordRejection, Goto
<1>2. result[p] \in Rejections
  BY <1>1 DEF IndInv, CallerInv
<1>3. /\ pc'[p] = "return" /\ ask'[p] = ask[p] /\ result'[p] = result[p]
      /\ pc' \in [Caller -> Places]
      /\ \A x \in Caller \ {p} : Same(x)
  BY <1>1, PlacesLemma DEF Same, Places
<1>4. PICK k, h : k = ask[p].key /\ h = PayloadHash(ask[p].payload)
  OBVIOUS
<1>5. /\ DOMAIN operation' = Key /\ operation' = [j \in Key |-> operation'[j]]
      /\ p \in Client => operation'[k] = [hash |-> h, outcome |-> result[p]] /\ operation[k] = NoOne
      /\ \A j \in Key : p \notin Client \/ j # k => operation'[j] = operation[j]
      /\ \A j \in Key : keyLock[j] # p => operation'[j] = operation[j]
      /\ \A j \in Key : operation[j] # NoOne => operation'[j] = operation[j]
  BY <1>1, <1>4, DecidedLemma
<1>6. /\ Locks' /\ keyLock' \in [Key -> Client \union {NoOne}]
      /\ versionLock' \in [Version -> Caller \union {NoOne}]
  BY <1>1, <1>3, <1>5, UnlockLemma
<1>7. Types'
  BY <1>1, <1>3, <1>5, <1>6 DEF IndInv, Types
<1>8. RowsGrow
  <2>1. Len(transitions) \in Nat
    BY RowsOf DEF IndInv, Types
  <2> QED BY <1>1, <1>5, <2>1 DEF RowsGrow
<1>9. Rows'
  <2>1. ASSUME NEW i \in 1..Len(transitions), transitions[i].key # NoOne
        PROVE  /\ transitions[i] \in Requests
               /\ operation'[transitions[i].key] =
                     [hash |-> PayloadHash(transitions[i].payload), outcome |-> Committed(i)]
    <3>1. /\ transitions[i] \in Requests /\ transitions[i].key \in Key
          /\ transitions[i].payload \in Payload
          /\ operation[transitions[i].key] =
                [hash |-> PayloadHash(transitions[i].payload), outcome |-> Committed(i)]
      BY <2>1 DEF IndInv, Rows, Requests
    <3>2. Committed(i) \in {"COMMITTED"} \X Nat
      BY RowsOf DEF IndInv, Types, Committed
    <3>3. operation[transitions[i].key] # NoOne
      BY <3>1, <3>2, RowLemma
    <3> QED BY <1>5, <3>1, <3>3
  <2>2. ASSUME NEW j \in Key, operation'[j] # NoOne
        PROVE  /\ operation'[j].hash \in Hash
               /\ \/ operation'[j].outcome \in Rejections
                  \/ \E i \in 1..Len(transitions) :
                        operation'[j].outcome = Committed(i) /\ transitions[i].key = j
               /\ operation'[j].outcome = StateConflict =>
                     /\ status[operation'[j].hash[2]] = Draft
                     /\ operation'[j].hash[3][1] = "ELIGIBLE_PENDING"
    <3>1. CASE operation'[j] = operation[j]
      BY <2>2, <3>1 DEF IndInv, Rows
    <3>2. CASE p \in Client /\ j = k
      <4>1. operation'[j].hash = h /\ operation'[j].outcome = result[p]
        BY <1>5, <3>2
      <4>2. ask[p].payload \in Payload /\ ask[p].payload \in AnyPayload
        BY <1>1, <3>2, WorkLemma
      <4>3. h \in Hash
        BY <1>4, <4>2, RowLemma
      <4>4. result[p] = StateConflict => status[h[2]] = Draft /\ h[3][1] = "ELIGIBLE_PENDING"
        <5> SUFFICES ASSUME result[p] = StateConflict
                     PROVE  status[h[2]] = Draft /\ h[3][1] = "ELIGIBLE_PENDING"
          OBVIOUS
        <5>1. status[ask[p].payload.version] = Draft /\ Acceptable(ask[p].payload)
          BY <1>1 DEF IndInv, CallerInv
        <5> QED BY <1>4, <4>2, <5>1, EnabledLemma, HashLemma
      <4> QED BY <1>2, <4>1, <4>3, <4>4
    <3> QED BY <1>5, <3>1, <3>2
  <2> QED BY <1>1, <2>1, <2>2 DEF Rows
<1>10. Chain'
  BY <1>1 DEF IndInv, Chain, Left, NoneBefore, JustBefore
<1>11. CallerInv(p)'
  <2>1. result[p] = StateConflict => ask[p] \in AnyRequest /\ status[ask[p].payload.version] = Draft
                                     /\ ask[p].payload.from # Draft
    BY DEF IndInv, CallerInv
  <2>2. p \in Client => ask[p] \in Requests
    BY <1>1, WorkLemma
  <2> QED BY <1>1, <1>2, <1>3, <2>1, <2>2 DEF CallerInv, Requests
<1>12. \A x \in Caller : CallerInv(x)'
  BY <1>3, <1>8, <1>11, CallersLemma
<1> QED BY <1>6, <1>7, <1>9, <1>10, <1>12 DEF IndInv

\* What the recording of a transition writes.
LEMMA RecordFacts ==
    ASSUME IndInv, NEW p \in Caller, RecordTransition(p), NEW n, n = Len(transitions),
           NEW v, v = ask[p].payload.version
    PROVE  /\ pc[p] = "record" /\ pc'[p] = "return" /\ pc' \in [Caller -> Places]
           /\ Updates(p) /\ ask' = ask /\ crashes' = crashes /\ Unlock(p)
           /\ ask[p] \in AnyRequest /\ ask[p].payload \in AnyPayload /\ v \in Version
           /\ p \in Client => ask[p] \in Requests /\ ask[p].key \in Key /\ ask[p].payload \in Payload
           /\ p \notin Client => ask[p].key = NoOne
           /\ ask[p].payload.from = EligiblePending /\ ask[p].payload.to = Draft
           /\ n \in Nat /\ transitions' \in Seq(AnyRequest) /\ Len(transitions') = n + 1
           /\ \A i \in 1..n : transitions'[i] = transitions[i] /\ transitions[i] \in AnyRequest
           /\ transitions'[n + 1] = ask[p]
           /\ DOMAIN transitions = 1..n /\ DOMAIN transitions' = 1..n + 1
           /\ status[v] = EligiblePending /\ status'[v] = Draft
           /\ \A w \in Version : w # v => status'[w] = status[w]
           /\ status' \in [Version -> {EligiblePending, Draft}]
           /\ versionLock[v] = p
           /\ Decided(p, Committed(n + 1))
           /\ result'[p] = Committed(n + 1) /\ result' \in [Caller -> Answers]
           /\ \A x \in Caller \ {p} : Same(x)
<1>1. /\ pc[p] = "record" /\ result[p] = Committed(0)
      /\ pc' = [pc EXCEPT ![p] = "return"] /\ ask' = ask /\ crashes' = crashes
      /\ status' = [status EXCEPT ![v] = ask[p].payload.to]
      /\ transitions' = Append(transitions, ask[p])
      /\ Decided(p, Committed(n + 1))
      /\ result' = [result EXCEPT ![p] = Committed(n + 1)] /\ Unlock(p)
  BY DEF RecordTransition, Goto, Result
<1>2. /\ ask[p] \in AnyRequest /\ ask[p].payload \in AnyPayload /\ v \in Version
      /\ p \in Client => ask[p] \in Requests /\ ask[p].key \in Key /\ ask[p].payload \in Payload
      /\ p \notin Client => ask[p].key = NoOne
  BY <1>1, WorkLemma
<1>3. Updates(p)
  BY <1>1 DEF Updates
<1>4. versionLock[v] = p /\ status[v] = ask[p].payload.from /\ Acceptable(ask[p].payload)
  BY <1>3 DEF IndInv, Locks
<1>5. ask[p].payload.from = EligiblePending /\ ask[p].payload.to = Draft
  BY <1>4, EnabledLemma
<1>6. /\ status \in [Version -> {EligiblePending, Draft}] /\ transitions \in Seq(AnyRequest)
  BY DEF IndInv, Types
<1>7. /\ n \in Nat /\ transitions' \in Seq(AnyRequest) /\ Len(transitions') = n + 1
      /\ \A i \in 1..n : transitions'[i] = transitions[i] /\ transitions[i] \in AnyRequest
      /\ transitions'[n + 1] = ask[p]
      /\ DOMAIN transitions = 1..n /\ DOMAIN transitions' = 1..n + 1
  BY <1>1, <1>2, <1>6, RowAdded, RowsOf
<1>8. /\ status'[v] = Draft /\ \A w \in Version : w # v => status'[w] = status[w]
      /\ status' \in [Version -> {EligiblePending, Draft}]
  BY <1>1, <1>2, <1>5, <1>6
<1>9. /\ pc'[p] = "return" /\ pc' \in [Caller -> Places]
      /\ result'[p] = Committed(n + 1) /\ result' \in [Caller -> Answers]
      /\ \A x \in Caller \ {p} : Same(x)
  <2>1. Committed(n + 1) \in Answers /\ "return" \in Places
    BY <1>7, OutcomesLemma DEF Places
  <2>2. pc \in [Caller -> Places] /\ result \in [Caller -> Answers]
    BY PlacesLemma
  <2> QED BY <1>1, <2>1, <2>2 DEF Same
<1> QED BY <1>1, <1>2, <1>3, <1>4, <1>5, <1>7, <1>8, <1>9

\* The rows after a transition has been recorded.
LEMMA RecordRows ==
    ASSUME IndInv, NEW p \in Caller, RecordTransition(p)
    PROVE  Rows' /\ RowsGrow
<1>0. PICK n, v, k, h : /\ n = Len(transitions) /\ v = ask[p].payload.version
                        /\ k = ask[p].key /\ h = PayloadHash(ask[p].payload)
  OBVIOUS
<1>1. /\ n \in Nat /\ Len(transitions') = n + 1 /\ v \in Version
      /\ \A i \in 1..n : transitions'[i] = transitions[i]
      /\ transitions'[n + 1] = ask[p]
      /\ status[v] = EligiblePending /\ status'[v] = Draft
      /\ \A w \in Version : w # v => status'[w] = status[w]
      /\ p \in Client => ask[p] \in Requests /\ k \in Key /\ ask[p].payload \in Payload
      /\ p \notin Client => k = NoOne
      /\ pc[p] = "record" /\ Decided(p, Committed(n + 1))
  <2>1. /\ n \in Nat /\ Len(transitions') = n + 1 /\ v \in Version
        /\ \A i \in 1..n : transitions'[i] = transitions[i]
        /\ transitions'[n + 1] = ask[p]
        /\ status[v] = EligiblePending /\ status'[v] = Draft
        /\ \A w \in Version : w # v => status'[w] = status[w]
    BY <1>0, RecordFacts
  <2>2. /\ p \in Client => ask[p] \in Requests /\ k \in Key /\ ask[p].payload \in Payload
        /\ p \notin Client => k = NoOne
        /\ pc[p] = "record" /\ Decided(p, Committed(n + 1))
    BY <1>0, RecordFacts
  <2> QED BY <2>1, <2>2
<1>2. /\ p \in Client => operation[k] = NoOne
                         /\ operation'[k] = [hash |-> h, outcome |-> Committed(n + 1)]
      /\ \A j \in Key : p \notin Client \/ j # k => operation'[j] = operation[j]
      /\ \A j \in Key : operation[j] # NoOne => operation'[j] = operation[j]
  BY <1>0, <1>1, DecidedLemma
<1>3. RowsGrow
  <2>1. EligiblePending # Draft
    BY StatesLemma
  <2> QED BY <1>0, <1>1, <1>2, <2>1 DEF RowsGrow
<1>4. ASSUME NEW i \in 1..n + 1, transitions'[i].key # NoOne
      PROVE  /\ transitions'[i] \in Requests
             /\ operation'[transitions'[i].key] =
                   [hash |-> PayloadHash(transitions'[i].payload), outcome |-> Committed(i)]
  <2>1. CASE i = n + 1
    <3>1. transitions'[i] = ask[p] /\ p \in Client
      BY <1>0, <1>1, <1>4, <2>1
    <3> QED BY <1>0, <1>1, <1>2, <2>1, <3>1
  <2>2. CASE i # n + 1
    <3>1. i \in 1..n /\ transitions'[i] = transitions[i]
      BY <1>1, <2>2
    <3>2. /\ transitions[i] \in Requests /\ transitions[i].key \in Key
          /\ transitions[i].payload \in Payload
          /\ operation[transitions[i].key] =
                [hash |-> PayloadHash(transitions[i].payload), outcome |-> Committed(i)]
      BY <1>0, <1>4, <3>1 DEF IndInv, Rows, Requests
    <3>3. Committed(i) \in {"COMMITTED"} \X Nat
      BY <1>1, <3>1 DEF Committed
    <3>4. operation[transitions[i].key] # NoOne
      BY <3>2, <3>3, RowLemma
    <3> QED BY <1>2, <3>1, <3>2, <3>4
  <2> QED BY <2>1, <2>2
<1>5. ASSUME NEW j \in Key, operation'[j] # NoOne
      PROVE  /\ operation'[j].hash \in Hash
             /\ \/ operation'[j].outcome \in Rejections
                \/ \E i \in 1..n + 1 :
                      operation'[j].outcome = Committed(i) /\ transitions'[i].key = j
             /\ operation'[j].outcome = StateConflict =>
                   /\ status'[operation'[j].hash[2]] = Draft
                   /\ operation'[j].hash[3][1] = "ELIGIBLE_PENDING"
  <2>1. CASE operation'[j] = operation[j]
    <3>1. /\ operation[j].hash \in Hash
          /\ \/ operation[j].outcome \in Rejections
             \/ \E i \in 1..n : operation[j].outcome = Committed(i) /\ transitions[i].key = j
          /\ operation[j].outcome = StateConflict =>
                status[operation[j].hash[2]] = Draft /\ operation[j].hash[3][1] = "ELIGIBLE_PENDING"
      BY <1>0, <1>5, <2>1 DEF IndInv, Rows
    <3>2. operation[j].hash[2] \in Version
      <4>1. PICK q \in Payload : operation[j].hash = PayloadHash(q)
        BY <3>1 DEF Hash
      <4>2. q \in AnyPayload
        BY DEF AnyPayload
      <4> QED BY <4>1, <4>2, HashLemma, PayloadLemma
    <3>3. status[operation[j].hash[2]] = Draft => status'[operation[j].hash[2]] = Draft
      BY <1>3, <3>2 DEF RowsGrow
    <3>4. \A i \in 1..n : i \in 1..n + 1
      BY <1>1
    <3> QED BY <1>1, <2>1, <3>1, <3>3, <3>4
  <2>2. CASE p \in Client /\ j = k
    <3>1. operation'[j].hash = h /\ operation'[j].outcome = Committed(n + 1)
      BY <1>2, <2>2
    <3>2. h \in Hash
      BY <1>0, <1>1, <2>2, RowLemma
    <3>3. n + 1 \in 1..n + 1 /\ transitions'[n + 1].key = j
      BY <1>0, <1>1, <2>2
    <3>4. Committed(n + 1) # StateConflict
      BY <1>1, OutcomesLemma
    <3> QED BY <3>1, <3>2, <3>3, <3>4
  <2> QED BY <1>2, <2>1, <2>2
<1>6. Len(transitions') = n + 1
  BY <1>1
<1> QED BY <1>3, <1>4, <1>5, <1>6 DEF Rows

\* The transition recorded follows the ones before it, and the status follows it.
LEMMA RecordChain ==
    ASSUME IndInv, NEW p \in Caller, RecordTransition(p)
    PROVE  Chain'
<1>0. PICK n, t : n = Len(transitions) /\ t = ask[p].payload.version
  OBVIOUS
<1>1. /\ n \in Nat /\ Len(transitions') = n + 1 /\ t \in Version
      /\ \A i \in 1..n : transitions'[i] = transitions[i]
      /\ transitions'[n + 1] = ask[p]
      /\ status[t] = EligiblePending /\ status'[t] = Draft
      /\ \A w \in Version : w # t => status'[w] = status[w]
      /\ ask[p].payload.from = EligiblePending /\ ask[p].payload.to = Draft
  BY <1>0, RecordFacts
<1>2. ASSUME NEW i \in 1..n + 1, NEW v
      PROVE  /\ NoneBefore(i, v)' = NoneBefore(i, v)
             /\ \A s : Left(s, i, v) => Left(s, i, v)'
  <2>1. \A j \in 1..i - 1 : transitions'[j] = transitions[j]
    BY <1>1
  <2>2. NoneBefore(i, v)' = NoneBefore(i, v)
    BY <2>1 DEF NoneBefore
  <2>3. \A j \in 1..i - 1 : JustBefore(j, i, v) => JustBefore(j, i, v)'
    <3>1. \A j \in 1..i - 1 : \A m \in j + 1..i - 1 : transitions'[m] = transitions[m]
      BY <1>1
    <3> QED BY <2>1, <3>1 DEF JustBefore
  <2> QED BY <2>1, <2>2, <2>3 DEF Left
<1>3. /\ \A i \in 1..n : Left(transitions[i].payload.from, i, transitions[i].payload.version)
      /\ \A v \in Version : Left(status[v], n + 1, v)
  BY <1>0 DEF IndInv, Chain
<1>4. ASSUME NEW i \in 1..n + 1, NEW s, s = transitions'[i].payload.from,
             NEW v, v = transitions'[i].payload.version
      PROVE  Left(s, i, v)'
  <2>1. CASE i = n + 1
    <3>1. s = status[v] /\ v = t /\ v \in Version
      BY <1>0, <1>1, <1>4, <2>1
    <3>2. Left(s, i, v)
      BY <1>3, <2>1, <3>1
    <3> QED BY <1>2, <3>2
  <2>2. CASE i # n + 1
    <3>1. i \in 1..n /\ s = transitions[i].payload.from /\ v = transitions[i].payload.version
      BY <1>1, <1>4, <2>2
    <3> QED BY <1>2, <1>3, <3>1
  <2> QED BY <2>1, <2>2
<1>5. ASSUME NEW v \in Version, NEW s, s = status'[v]
      PROVE  Left(s, n + 2, v)'
  <2>1. CASE v = t
    <3>1. JustBefore(n + 1, n + 2, v)'
      BY <1>0, <1>1, <2>1 DEF JustBefore
    <3>2. s = transitions'[n + 1].payload.to /\ n + 1 \in 1..(n + 2) - 1
      BY <1>1, <1>5, <2>1
    <3> QED BY <3>1, <3>2 DEF Left
  <2>2. CASE v # t
    <3>1. transitions'[n + 1].payload.version # v /\ s = status[v]
      BY <1>0, <1>1, <1>5, <2>2
    <3>2. CASE s = EligiblePending /\ NoneBefore(n + 1, v)
      <4>1. NoneBefore(n + 2, v)'
        BY <1>1, <3>1, <3>2 DEF NoneBefore
      <4> QED BY <3>2, <4>1 DEF Left
    <3>3. ASSUME NEW j \in 1..(n + 1) - 1, JustBefore(j, n + 1, v), s = transitions[j].payload.to
          PROVE  Left(s, n + 2, v)'
      <4>1. JustBefore(j, n + 2, v)'
        BY <1>1, <3>1, <3>3 DEF JustBefore
      <4>2. s = transitions'[j].payload.to /\ j \in 1..(n + 2) - 1
        BY <1>1, <3>3
      <4> QED BY <4>1, <4>2 DEF Left
    <3>4. Left(s, n + 1, v)
      BY <1>3, <3>1
    <3> QED BY <3>2, <3>3, <3>4 DEF Left
  <2> QED BY <2>1, <2>2
<1>6. /\ \A i \in 1..n + 1 :
            Left(transitions[i].payload.from, i, transitions[i].payload.version)'
      /\ \A v \in Version : Left(status[v], n + 2, v)'
  BY <1>4, <1>5 DEF Left, NoneBefore, JustBefore
<1>7. Len(transitions') = n + 1 /\ Len(transitions') + 1 = n + 2
  BY <1>1
<1> QED BY <1>6, <1>7 DEF Chain, Left, NoneBefore, JustBefore

LEMMA RecordTransitionStep ==
    ASSUME IndInv, NEW p \in Caller, RecordTransition(p)
    PROVE  IndInv'
<1>0. PICK n, v : n = Len(transitions) /\ v = ask[p].payload.version
  OBVIOUS
<1>1. /\ pc[p] = "record" /\ pc'[p] = "return" /\ pc' \in [Caller -> Places]
      /\ ask' = ask /\ crashes' = crashes /\ Unlock(p)
      /\ p \in Client => ask[p] \in Requests
      /\ n \in Nat /\ transitions' \in Seq(AnyRequest) /\ Len(transitions') = n + 1
      /\ \A w \in Version : w # v => status'[w] = status[w]
      /\ status' \in [Version -> {EligiblePending, Draft}]
      /\ versionLock[v] = p /\ Decided(p, Committed(n + 1))
      /\ result'[p] = Committed(n + 1) /\ result' \in [Caller -> Answers]
      /\ \A x \in Caller \ {p} : Same(x)
  BY <1>0, RecordFacts
<1>2. Rows' /\ RowsGrow /\ Chain'
  BY RecordRows, RecordChain
<1>3. /\ DOMAIN operation' = Key /\ operation' = [j \in Key |-> operation'[j]]
      /\ \A k \in Key : keyLock[k] # p => operation'[k] = operation[k]
  BY <1>1, DecidedLemma
<1>4. /\ Locks' /\ keyLock' \in [Key -> Client \union {NoOne}]
      /\ versionLock' \in [Version -> Caller \union {NoOne}]
  <2>1. \A w \in Version : versionLock[w] # p => status'[w] = status[w]
    BY <1>1
  <2> QED BY <1>1, <1>3, <2>1, UnlockLemma
<1>5. Types'
  BY <1>1, <1>3, <1>4 DEF IndInv, Types
<1>6. CallerInv(p)'
  <2>1. /\ result'[p] \in {"COMMITTED"} \X (1..Len(transitions'))
        /\ result'[p] # StateConflict
    <3>1. n + 1 \in Nat /\ n + 1 \in 1..n + 1
      BY <1>1
    <3> QED BY <1>1, <3>1, OutcomesLemma DEF Committed
  <2> QED BY <1>1, <2>1 DEF CallerInv, Requests
<1>7. \A x \in Caller : CallerInv(x)'
  BY <1>1, <1>2, <1>6, CallersLemma
<1> QED BY <1>2, <1>4, <1>5, <1>7 DEF IndInv

\* Who goes away leaves nothing behind.
LEMMA LeaveLemma ==
    ASSUME IndInv, NEW p \in Caller, Leave(p), UNCHANGED rows
    PROVE  /\ pc' \in [Caller -> Places] /\ ask' \in [Caller -> AnyRequest \union {NoOne}]
           /\ result' \in [Caller -> Answers]
           /\ pc'[p] = "idle" /\ \A x \in Caller \ {p} : Same(x)
           /\ Rows' /\ Chain' /\ \A x \in Caller : CallerInv(x)'
<1>1. /\ pc' = [pc EXCEPT ![p] = "idle"] /\ ask' = [ask EXCEPT ![p] = NoOne]
      /\ result' = [result EXCEPT ![p] = NoResult]
  BY DEF Leave, Goto, Result
<1>2. /\ pc' \in [Caller -> Places] /\ ask' \in [Caller -> AnyRequest \union {NoOne}]
      /\ result' \in [Caller -> Answers] /\ pc'[p] = "idle" /\ result'[p] = NoResult
      /\ \A x \in Caller \ {p} : Same(x)
  BY <1>1, PlacesLemma, OutcomesLemma DEF Places, Same
<1>3. Rows' /\ Chain' /\ RowsGrow
  BY QuietRows
<1>4. CallerInv(p)'
  BY <1>2, OutcomesLemma DEF CallerInv
<1> QED BY <1>2, <1>3, <1>4, CallersLemma

LEMMA ReceiveStep ==
    ASSUME IndInv, NEW p \in Caller, Receive(p)
    PROVE  IndInv'
<1>1. pc[p] = "return" /\ Leave(p) /\ UNCHANGED <<rows, locks, crashes>>
  BY DEF Receive
<1>2. /\ pc' \in [Caller -> Places] /\ ask' \in [Caller -> AnyRequest \union {NoOne}]
      /\ result' \in [Caller -> Answers]
      /\ pc'[p] = "idle" /\ \A x \in Caller \ {p} : Same(x)
      /\ Rows' /\ Chain' /\ \A x \in Caller : CallerInv(x)'
  BY <1>1, LeaveLemma
<1>3. Locks'
  BY <1>1, <1>2, QuietLocks DEF Owns, Updates
<1>4. Types'
  BY <1>1, <1>2 DEF IndInv, Types, rows, locks
<1> QED BY <1>2, <1>3, <1>4 DEF IndInv

LEMMA CrashStep ==
    ASSUME IndInv, NEW p \in Caller, Crash(p)
    PROVE  IndInv'
<1>1. /\ Leave(p) /\ Unlock(p) /\ UNCHANGED rows
      /\ crashes < MaxCrashes /\ crashes' = crashes + 1
  BY DEF Crash
<1>2. /\ pc' \in [Caller -> Places] /\ ask' \in [Caller -> AnyRequest \union {NoOne}]
      /\ result' \in [Caller -> Answers]
      /\ pc'[p] = "idle" /\ \A x \in Caller \ {p} : Same(x)
      /\ Rows' /\ Chain' /\ \A x \in Caller : CallerInv(x)'
  BY <1>1, LeaveLemma
<1>3. /\ Locks' /\ keyLock' \in [Key -> Client \union {NoOne}]
      /\ versionLock' \in [Version -> Caller \union {NoOne}]
  BY <1>1, <1>2, UnlockLemma DEF rows
<1>4. crashes' \in 0..MaxCrashes
  <2>1. crashes \in 0..MaxCrashes /\ MaxCrashes \in Nat
    BY TransitionAssumption DEF IndInv, Types
  <2> QED BY <1>1, <2>1
<1>5. Types'
  BY <1>1, <1>2, <1>3, <1>4 DEF IndInv, Types, rows
<1> QED BY <1>2, <1>3, <1>5 DEF IndInv

LEMMA StutterStep == IndInv /\ UNCHANGED vars => IndInv'
<1> SUFFICES ASSUME IndInv, UNCHANGED vars PROVE IndInv'
  OBVIOUS
<1>1. /\ UNCHANGED rows /\ UNCHANGED locks /\ pc' = pc /\ ask' = ask /\ result' = result
      /\ crashes' = crashes
  BY DEF vars
<1>2. Rows' /\ Chain' /\ RowsGrow
  BY <1>1, QuietRows
<1>3. Types'
  BY <1>1 DEF IndInv, Types, rows, locks
<1>4. Locks'
  BY <1>1 DEF IndInv, Locks, Owns, Updates, Acceptable, rows, locks
<1>5. \A x \in Caller : CallerInv(x)'
  BY <1>1, <1>2, CallerFrame DEF Same
<1> QED BY <1>2, <1>3, <1>4, <1>5 DEF IndInv

LEMMA NextInv == IndInv /\ [Next]_vars => IndInv'
<1> SUFFICES ASSUME IndInv, [Next]_vars PROVE IndInv'
  OBVIOUS
<1>1. ASSUME NEW p \in Caller, Step(p) PROVE IndInv'
  BY <1>1, ReserveStep, ReplayStep, ApplyStep, RecordTransitionStep, RecordRejectionStep,
     ReceiveStep DEF Step
<1> QED BY <1>1, CrashStep, RequestStep, RequestUnknownTaskStep, PhaseCStep, StutterStep DEF Next

LEMMA Invariance == Spec => []IndInv
BY InitInv, NextInv, PTL DEF Spec

-------------------------------------------------------------------------------
\* The theorems.

\* What is stored and what is answered is of its type (the CHECK constraints of migration 0001
\* and the outcomes of workflow_transition.py), whatever clients ask for.
THEOREM WorkflowTypes == Spec => []TypeOK
<1>1. ASSUME IndInv PROVE TypeOK
  <2>1. status \in [Version -> KnownStates]
    BY <1>1, StatesLemma DEF IndInv, Types
  <2>2. /\ transitions \in Seq([key : Key \union {NoOne}, payload : AnyPayload])
        /\ ask \in [Caller -> [key : Key \union {NoOne}, payload : AnyPayload] \union {NoOne}]
        /\ pc \in [Caller -> {"idle", "reserve", "replay", "apply", "record", "return"}]
        /\ keyLock \in [Key -> Client \union {NoOne}]
        /\ versionLock \in [Version -> Caller \union {NoOne}]
        /\ crashes \in 0..MaxCrashes
    BY <1>1 DEF IndInv, Types, AnyRequest, Places
  <2>3. ASSUME NEW k \in Key, operation[k] # NoOne
        PROVE  /\ operation[k].hash \in Hash
               /\ operation[k].outcome \in Rejections \union ({"COMMITTED"} \X Nat)
    <3>1. ASSUME NEW i \in 1..Len(transitions), operation[k].outcome = Committed(i)
          PROVE  operation[k].outcome \in {"COMMITTED"} \X Nat
      <4>1. i \in Nat
        BY <1>1, RowsOf DEF IndInv, Types
      <4> QED BY <3>1, <4>1 DEF Committed
    <3> QED BY <1>1, <2>3, <3>1 DEF IndInv, Rows
  <2>4. ASSUME NEW p \in Caller
        PROVE  result[p] \in Rejections \union {IdempotencyConflict, TaskTypeUnresolved, NoResult}
                                \union ({"COMMITTED"} \X Nat)
    BY <1>1 DEF IndInv, Types, Answers
  <2> QED BY <2>1, <2>2, <2>3, <2>4 DEF TypeOK
<1> QED BY <1>1, Invariance, PTL

\* The status left by the transitions before i is the one that the last of them ends in.
LEMMA BeforeLemma ==
    ASSUME NEW i \in Nat, i <= Len(transitions) + 1, NEW s, NEW v, Left(s, i, v),
           Len(transitions) \in Nat, DOMAIN transitions = 1..Len(transitions)
    PROVE  s = StatusBefore(v, i)
<1> DEFINE earlier == {j \in TransitionsOf(v) : j < i}
<1>1. \A j : j \in earlier <=> j \in 1..i - 1 /\ transitions[j].payload.version = v
  BY DEF TransitionsOf
<1>2. CASE s = EligiblePending /\ NoneBefore(i, v)
  <2>1. earlier = {}
    BY <1>1, <1>2 DEF NoneBefore
  <2> QED BY <1>2, <2>1 DEF StatusBefore
<1>3. ASSUME NEW j \in 1..i - 1, JustBefore(j, i, v), s = transitions[j].payload.to
      PROVE  s = StatusBefore(v, i)
  <2> HIDE DEF earlier
  <2>1. j \in earlier /\ earlier # {}
    BY <1>1, <1>3 DEF JustBefore
  <2>2. \A m \in earlier : m \in Nat /\ j >= m
    <3> SUFFICES ASSUME NEW m \in earlier PROVE m \in Nat /\ j >= m
      OBVIOUS
    <3>1. m \in 1..i - 1 /\ transitions[m].payload.version = v
      BY <1>1
    <3>2. m \notin j + 1..i - 1
      BY <1>3, <3>1 DEF JustBefore
    <3> QED BY <3>1, <3>2
  <2>3. Max(earlier) = j
    <3>1. \A x \in earlier : (\A y \in earlier : x >= y) => x = j
      BY <2>1, <2>2
    <3> QED BY <2>1, <2>2, <3>1 DEF Max
  <2>4. StatusBefore(v, i) =
            IF earlier = {} THEN EligiblePending ELSE transitions[Max(earlier)].payload.to
    BY DEF StatusBefore, earlier
  <2> QED BY <1>3, <2>1, <2>3, <2>4
<1> QED BY <1>2, <1>3 DEF Left

\* The lifecycle of a version is what its transitions say (the conditional UPDATE of
\* apply_transition_in_transaction): no transition starts from a status that another one, of a
\* client or of Phase C, has already left.
THEOREM WorkflowLifecycle == Spec => []LifecycleFollowsTransitions
<1>1. ASSUME IndInv PROVE LifecycleFollowsTransitions
  <2>1. Len(transitions) \in Nat /\ DOMAIN transitions = 1..Len(transitions)
    BY <1>1, RowsOf DEF IndInv, Types
  <2>2. ASSUME NEW v \in Version, NEW i \in TransitionsOf(v)
        PROVE  transitions[i].payload.from = StatusBefore(v, i)
    <3>1. i \in 1..Len(transitions) /\ transitions[i].payload.version = v
      BY <2>1 DEF TransitionsOf
    <3>2. Left(transitions[i].payload.from, i, v)
      BY <1>1, <3>1 DEF IndInv, Chain
    <3> QED BY <2>1, <3>1, <3>2, BeforeLemma
  <2>3. ASSUME NEW v \in Version
        PROVE  status[v] = StatusBefore(v, Len(transitions) + 1)
    <3>1. Left(status[v], Len(transitions) + 1, v)
      BY <1>1 DEF IndInv, Chain
    <3> QED BY <2>1, <3>1, BeforeLemma
  <2> QED BY <2>2, <2>3 DEF LifecycleFollowsTransitions
<1> QED BY <1>1, Invariance, PTL

\* A key decides once, for good (the reservation by primary key and its final UPDATE): the
\* transitions recorded under a key are the one its reservation names.
THEOREM WorkflowOneDecision == Spec => []OneDecisionPerKey
<1>1. ASSUME IndInv PROVE OneDecisionPerKey
  <2>1. Len(transitions) \in Nat /\ DOMAIN transitions = 1..Len(transitions)
    BY <1>1, RowsOf DEF IndInv, Types
  <2>2. \A i \in DOMAIN transitions : transitions[i].key # NoOne =>
           operation[transitions[i].key] =
               [hash |-> PayloadHash(transitions[i].payload), outcome |-> Committed(i)]
    BY <1>1, <2>1 DEF IndInv, Rows
  <2>3. ASSUME NEW k \in Key, operation[k] # NoOne, operation[k].outcome \notin Rejections
        PROVE  /\ operation[k].outcome[2] \in DOMAIN transitions
               /\ transitions[operation[k].outcome[2]].key = k
    <3>1. PICK i \in 1..Len(transitions) :
              operation[k].outcome = Committed(i) /\ transitions[i].key = k
      BY <1>1, <2>3 DEF IndInv, Rows
    <3>2. operation[k].outcome[2] = i
      BY <2>1, <3>1, OutcomesLemma
    <3> QED BY <2>1, <3>1, <3>2
  <2> QED BY <2>2, <2>3 DEF OneDecisionPerKey
<1> QED BY <1>1, Invariance, PTL

\* Remembering a rejection is sound (CR-27): the version of a STATE_CONFLICT has left the status
\* it was expected in for ever, so that a replay never denies what would now be granted.
THEOREM WorkflowConflicts == Spec => []ConflictsStayTrue
<1>1. ASSUME IndInv PROVE ConflictsStayTrue
  <2>1. ASSUME NEW p \in Caller, result[p] = <<"STATE_CONFLICT", 0>>
        PROVE  status[ask[p].payload.version] # ask[p].payload.from
    BY <1>1, <2>1 DEF IndInv, CallerInv, StateConflict
  <2>2. ASSUME NEW k \in Key, operation[k] # NoOne, operation[k].outcome = <<"STATE_CONFLICT", 0>>
        PROVE  status[operation[k].hash[2]] = Draft
    BY <1>1, <2>2 DEF IndInv, Rows, StateConflict
  <2> QED BY <2>1, <2>2 DEF ConflictsStayTrue
<1> QED BY <1>1, Invariance, PTL

-------------------------------------------------------------------------------
\* The refinement of ExactlyOnce.

\* What is recorded under a key, and what a client has been told.
RecordOf(k) ==
    IF operation[k] = NoOne THEN NoOne
    ELSE [payload |-> operation[k].hash, outcome |-> Seen(operation[k].outcome)]

ToldOf(p) ==
    IF pc[p] = "return" /\ result[p] # TaskTypeUnresolved
    THEN [key |-> ask[p].key, payload |-> PayloadHash(ask[p].payload), outcome |-> Seen(result[p])]
    ELSE NoOne

LEMMA MappingLemma ==
    Record = [k \in Key |-> RecordOf(k)] /\ Told = [p \in Client |-> ToldOf(p)]
BY DEF Record, RecordOf, Told, ToldOf

\* Transitions that are there are not rewritten.
TransitionsKept ==
    /\ Len(transitions) \in Nat
    /\ \A i \in 1..Len(transitions) : transitions'[i] = transitions[i]

\* An outcome that names no row, or one that is there, is seen as it was.
LEMMA SeenLemma ==
    ASSUME TransitionsKept, NEW r,
           \/ r \in Rejections \union {IdempotencyConflict, TaskTypeUnresolved, NoResult}
           \/ r \in {"COMMITTED"} \X (1..Len(transitions))
    PROVE  Seen(r)' = Seen(r)
<1>1. CASE r \in Rejections \union {IdempotencyConflict, TaskTypeUnresolved, NoResult}
  <2>1. r[1] # "COMMITTED"
    BY <1>1, OutcomesLemma
  <2> QED BY <2>1 DEF Seen
<1>2. CASE r \in {"COMMITTED"} \X (1..Len(transitions))
  <2>1. r[2] \in 1..Len(transitions)
    BY <1>2
  <2> QED BY <2>1 DEF Seen, TransitionsKept
<1> QED BY <1>1, <1>2

\* What is recorded under a key stays recorded, and is seen as one of the outcomes.
LEMMA RecordedLemma ==
    ASSUME IndInv, NEW k \in Key, operation[k] # NoOne
    PROVE  /\ \/ operation[k].outcome \in Rejections
              \/ operation[k].outcome \in {"COMMITTED"} \X (1..Len(transitions))
           /\ RecordOf(k) = [payload |-> operation[k].hash, outcome |-> Seen(operation[k].outcome)]
           /\ RecordOf(k) # NoOne
<1>1. Len(transitions) \in Nat
  BY RowsOf DEF IndInv, Types
<1>2. operation[k].hash \in Hash
  BY DEF IndInv, Rows
<1>3. RecordOf(k) = [payload |-> operation[k].hash, outcome |-> Seen(operation[k].outcome)]
  BY DEF RecordOf
<1>4. CASE operation[k].outcome \in Rejections
  <2>1. Seen(operation[k].outcome) \in Rejections
    BY <1>4, OutcomesLemma DEF Seen
  <2>2. RecordOf(k) \in [payload : Hash, outcome : Rejections \union
                                        ({"COMMITTED"} \X [key : Key, payload : Payload])]
    BY <1>2, <1>3, <2>1
  <2> QED BY <1>3, <1>4, <2>2, NoRowAssumption
<1>5. ASSUME NEW i \in 1..Len(transitions), operation[k].outcome = Committed(i),
             transitions[i].key = k
      PROVE  /\ operation[k].outcome \in {"COMMITTED"} \X (1..Len(transitions))
             /\ RecordOf(k) # NoOne
  <2>1. k # NoOne
    BY TransitionAssumption
  <2>2. transitions[i] \in [key : Key, payload : Payload]
    BY <1>5, <2>1 DEF IndInv, Rows, Requests
  <2>3. operation[k].outcome[1] = "COMMITTED" /\ operation[k].outcome[2] = i
    BY <1>1, <1>5, OutcomesLemma
  <2>4. Seen(operation[k].outcome) \in {"COMMITTED"} \X [key : Key, payload : Payload]
    BY <2>2, <2>3 DEF Seen
  <2>5. RecordOf(k) \in [payload : Hash, outcome : Rejections \union
                                        ({"COMMITTED"} \X [key : Key, payload : Payload])]
    BY <1>2, <1>3, <2>4
  <2> QED BY <1>5, <2>5, NoRowAssumption DEF Committed
<1> QED BY <1>3, <1>4, <1>5 DEF IndInv, Rows

LEMMA RecordKept ==
    ASSUME IndInv, TransitionsKept, NEW k \in Key, operation'[k] = operation[k]
    PROVE  RecordOf(k)' = RecordOf(k)
<1>1. operation[k] # NoOne => Seen(operation[k].outcome)' = Seen(operation[k].outcome)
  BY RecordedLemma, SeenLemma DEF Seen
<1> QED BY <1>1 DEF RecordOf

LEMMA ToldKept ==
    ASSUME IndInv, TransitionsKept, NEW x \in Caller, Same(x)
    PROVE  ToldOf(x)' = ToldOf(x)
<1>1. pc'[x] = pc[x] /\ ask'[x] = ask[x] /\ result'[x] = result[x]
  BY DEF Same
<1>2. PayloadHash(ask[x].payload)' = PayloadHash(ask[x].payload)
  BY <1>1 DEF PayloadHash
<1>3. pc[x] = "return" => Seen(result[x])' = Seen(result[x])
  BY <1>1, SeenLemma DEF IndInv, CallerInv, Seen
<1> QED BY <1>1, <1>2, <1>3 DEF ToldOf

\* What has been told to a client stays what it was told.
LEMMA ToldLemma ==
    ASSUME IndInv, TransitionsKept, NEW p \in Client, \A x \in Caller \ {p} : Same(x),
           NEW t, t = ToldOf(p)'
    PROVE  Told' = [Told EXCEPT ![p] = t]
<1>1. ASSUME NEW x \in Client \ {p} PROVE ToldOf(x)' = ToldOf(x)
  BY ToldKept DEF Caller
<1>2. Told = [x \in Client |-> ToldOf(x)] /\ Told' = [x \in Client |-> ToldOf(x)']
  BY DEF Told, ToldOf
<1> QED BY <1>1, <1>2

\* A step that writes no row records nothing.
LEMMA QuietOnce ==
    ASSUME IndInv, transitions' = transitions, operation' = operation
    PROVE  TransitionsKept /\ Record' = Record
<1>1. Len(transitions) \in Nat
  BY RowsOf DEF IndInv, Types
<1> QED BY <1>1 DEF TransitionsKept, Record, Seen

\* A step of Phase C, or one after which the client has no answer as before it, is not seen.
LEMMA UnseenLemma ==
    ASSUME IndInv, TransitionsKept, \A k \in Key : operation'[k] = operation[k],
           NEW p \in Caller, \A x \in Caller \ {p} : Same(x),
           p \in Client => ToldOf(p) = NoOne /\ ToldOf(p)' = NoOne
    PROVE  UNCHANGED <<Record, Told>>
<1>1. \A x \in Client : ToldOf(x)' = ToldOf(x)
  BY ToldKept DEF Caller
<1>2. \A k \in Key : RecordOf(k)' = RecordOf(k)
  BY RecordKept
<1>3. Told = [x \in Client |-> ToldOf(x)] /\ Told' = [x \in Client |-> ToldOf(x)']
  BY DEF Told, ToldOf
<1>4. Record = [k \in Key |-> RecordOf(k)] /\ Record' = [k \in Key |-> RecordOf(k)']
  BY DEF Record, RecordOf
<1> QED BY <1>1, <1>2, <1>3, <1>4

\* The answer to a repeated request is the recorded one.
LEMMA ReplayOnce ==
    ASSUME IndInv, NEW p \in Client, Replay(p)
    PROVE  \E k \in Key, h \in Hash : Once!Repeat(p, k, h)
<1>1. PICK k, h : k = ask[p].key /\ h = PayloadHash(ask[p].payload)
  OBVIOUS
<1>2. /\ pc[p] = "replay" /\ pc' = [pc EXCEPT ![p] = "return"] /\ ask' = ask
      /\ transitions' = transitions /\ operation' = operation
      /\ \/ operation[k].hash = h /\ result' = [result EXCEPT ![p] = operation[k].outcome]
         \/ operation[k].hash # h /\ result' = [result EXCEPT ![p] = IdempotencyConflict]
  BY <1>1 DEF Replay, Result, Goto, rows
<1>3. p \in Caller /\ k \in Key /\ h \in Hash
  BY <1>1, <1>2, WorkLemma, RowLemma DEF Caller
<1>4. /\ pc'[p] = "return" /\ ask'[p] = ask[p]
      /\ result'[p] = IF operation[k].hash = h THEN operation[k].outcome ELSE IdempotencyConflict
      /\ \A x \in Caller \ {p} : Same(x)
  BY <1>2, <1>3, PlacesLemma DEF Same
<1>5. operation[k] # NoOne
  BY <1>1, <1>2, <1>3 DEF IndInv, CallerInv
<1>6. TransitionsKept /\ Record' = Record /\ Record[k] = RecordOf(k)
  BY <1>2, <1>3, QuietOnce, MappingLemma
<1>7. /\ Record[k] # NoOne /\ Record[k].payload = operation[k].hash
      /\ Record[k].outcome = Seen(operation[k].outcome)
      /\ \/ operation[k].outcome \in Rejections
         \/ operation[k].outcome \in {"COMMITTED"} \X (1..Len(transitions))
  BY <1>3, <1>5, <1>6, RecordedLemma
<1>8. result'[p] # TaskTypeUnresolved
  <2>1. operation[k].outcome \in {"COMMITTED"} \X (1..Len(transitions)) =>
            operation[k].outcome[1] = "COMMITTED"
    OBVIOUS
  <2> QED BY <1>4, <1>7, <2>1, OutcomesLemma
<1>9. Seen(result[p])' = IF Record[k].payload = h THEN Record[k].outcome ELSE IdempotencyConflict
  <2>1. CASE operation[k].hash = h
    <3>1. Seen(result[p])' = Seen(operation[k].outcome)
      BY <1>2, <1>4, <2>1 DEF Seen
    <3> QED BY <1>7, <2>1, <3>1
  <2>2. CASE operation[k].hash # h
    <3>1. result'[p] = IdempotencyConflict /\ result'[p][1] # "COMMITTED"
      BY <1>4, <2>2, OutcomesLemma
    <3>2. Seen(result[p])' = IdempotencyConflict
      BY <3>1 DEF Seen
    <3> QED BY <1>7, <2>2, <3>2
  <2> QED BY <2>1, <2>2
<1>10. ToldOf(p)' = [key |-> k, payload |-> h,
                     outcome |-> IF Record[k].payload = h THEN Record[k].outcome
                                 ELSE IdempotencyConflict]
  <2>1. (ToldOf(p) = [key |-> ask[p].key, payload |-> PayloadHash(ask[p].payload),
                      outcome |-> Seen(result[p])])'
    BY <1>4, <1>8 DEF ToldOf
  <2>2. (ask[p].key = k)' /\ (PayloadHash(ask[p].payload) = h)'
    BY <1>1, <1>4 DEF PayloadHash
  <2> QED BY <1>9, <2>1, <2>2
<1>11. Told' = [Told EXCEPT ![p] = [key |-> k, payload |-> h,
                     outcome |-> IF Record[k].payload = h THEN Record[k].outcome
                                 ELSE IdempotencyConflict]]
  BY <1>4, <1>6, <1>10, ToldLemma
<1>12. Once!Repeat(p, k, h)
  BY <1>6, <1>7, <1>11 DEF Once!Repeat, Once!Answer
<1> QED BY <1>3, <1>12

\* A recorded decision decides the key, and says so.
LEMMA DecideOnce ==
    ASSUME IndInv, TransitionsKept, NEW p \in Client, pc[p] = "record", pc'[p] = "return",
           ask' = ask, \A x \in Caller \ {p} : Same(x),
           NEW o \in Rejections \union ({"COMMITTED"} \X Nat),
           Decided(p, o), result'[p] = o, NEW s, s = Seen(o)',
           s \in Rejections \union ({"COMMITTED"} \X [key : Key, payload : Payload])
    PROVE  \E k \in Key, h \in Hash : Once!Decide(p, k, h)
<1>1. PICK k, h : k = ask[p].key /\ h = PayloadHash(ask[p].payload)
  OBVIOUS
<1>2. p \in Caller /\ k \in Key /\ h \in Hash
  BY <1>1, WorkLemma, RowLemma DEF Caller
<1>3. /\ operation[k] = NoOne /\ operation'[k] = [hash |-> h, outcome |-> o]
      /\ \A j \in Key : j # k => operation'[j] = operation[j]
  BY <1>1, <1>2, DecidedLemma
<1>4. operation'[k] # NoOne
  BY <1>2, <1>3, RowLemma
<1>5. RecordOf(k)' = [payload |-> h, outcome |-> s]
  <2>1. (RecordOf(k) = [payload |-> operation[k].hash, outcome |-> Seen(operation[k].outcome)])'
    BY <1>4 DEF RecordOf
  <2>2. operation'[k].hash = h /\ operation'[k].outcome = o
    BY <1>3
  <2>3. Seen(operation[k].outcome)' = s
    BY <2>2 DEF Seen
  <2> QED BY <2>1, <2>2, <2>3
<1>6. \A j \in Key : j # k => RecordOf(j)' = RecordOf(j)
  BY <1>3, RecordKept
<1>7. Record' = [Record EXCEPT ![k] = [payload |-> h, outcome |-> s]]
  <2>1. Record = [j \in Key |-> RecordOf(j)] /\ Record' = [j \in Key |-> RecordOf(j)']
    BY DEF Record, RecordOf
  <2> QED BY <1>5, <1>6, <2>1
<1>8. Record[k] = NoOne
  BY <1>2, <1>3, MappingLemma DEF RecordOf
<1>9. result'[p] # TaskTypeUnresolved
  <2>1. o \in {"COMMITTED"} \X Nat => o[1] = "COMMITTED"
    OBVIOUS
  <2> QED BY <2>1, OutcomesLemma
<1>10. ToldOf(p)' = [key |-> k, payload |-> h, outcome |-> s]
  <2>1. (ToldOf(p) = [key |-> ask[p].key, payload |-> PayloadHash(ask[p].payload),
                      outcome |-> Seen(result[p])])'
    BY <1>9 DEF ToldOf
  <2>2. (ask[p].key = k)' /\ (PayloadHash(ask[p].payload) = h)'
    BY <1>1 DEF PayloadHash
  <2>3. Seen(result[p])' = s
    BY DEF Seen
  <2> QED BY <2>1, <2>2, <2>3
<1>11. Told' = [Told EXCEPT ![p] = [key |-> k, payload |-> h, outcome |-> s]]
  BY <1>10, ToldLemma
<1>12. Once!Decide(p, k, h)
  BY <1>7, <1>8, <1>11 DEF Once!Decide, Once!Answer
<1> QED BY <1>2, <1>12

\* The recording of a transition: a decision of a client, and for Phase C nothing that is seen.
LEMMA RecordOnce ==
    ASSUME IndInv, NEW p \in Caller, RecordTransition(p)
    PROVE  [Once!OnceNext]_(Once!onceVars)
<1>0. PICK n, v : n = Len(transitions) /\ v = ask[p].payload.version
  OBVIOUS
<1>1. /\ pc[p] = "record" /\ pc'[p] = "return" /\ ask' = ask
      /\ n \in Nat /\ \A i \in 1..n : transitions'[i] = transitions[i]
      /\ p \in Client => ask[p] \in Requests
      /\ transitions'[n + 1] = ask[p] /\ Decided(p, Committed(n + 1))
      /\ result'[p] = Committed(n + 1) /\ \A x \in Caller \ {p} : Same(x)
  BY <1>0, RecordFacts
<1>2. TransitionsKept
  BY <1>0, <1>1 DEF TransitionsKept
<1>3. CASE p \in Client
  <2>1. PICK s : s = <<"COMMITTED", ask[p]>>
    OBVIOUS
  <2>2. s \in {"COMMITTED"} \X [key : Key, payload : Payload]
    BY <1>1, <1>3, <2>1 DEF Requests
  <2>3. Seen(Committed(n + 1))' = s
    BY <1>1, <2>1 DEF Seen, Committed
  <2>4. Committed(n + 1) \in {"COMMITTED"} \X Nat
    BY <1>1 DEF Committed
  <2>5. PICK o : o = Committed(n + 1)
    OBVIOUS
  <2>6. Decided(p, o) /\ result'[p] = o /\ s = Seen(o)'
    BY <1>1, <2>3, <2>5 DEF Seen
  <2> QED BY <1>1, <1>2, <1>3, <2>2, <2>4, <2>5, <2>6, DecideOnce DEF Once!OnceNext
<1>4. CASE p \notin Client
  <2>1. \A k \in Key : operation'[k] = operation[k]
    BY <1>1, <1>4, DecidedLemma
  <2> QED BY <1>1, <1>2, <1>4, <2>1, UnseenLemma DEF Once!onceVars
<1> QED BY <1>3, <1>4

\* The recording of a rejection likewise.
LEMMA RejectOnce ==
    ASSUME IndInv, NEW p \in Caller, RecordRejection(p)
    PROVE  [Once!OnceNext]_(Once!onceVars)
<1>1. PICK r : r = result[p]
  OBVIOUS
<1>2. /\ pc[p] = "record" /\ pc' = [pc EXCEPT ![p] = "return"] /\ ask' = ask /\ result' = result
      /\ transitions' = transitions /\ r # Committed(0) /\ Decided(p, r)
  BY <1>1 DEF RecordRejection, Goto
<1>3. r \in Rejections
  BY <1>1, <1>2 DEF IndInv, CallerInv
<1>4. pc'[p] = "return" /\ \A x \in Caller \ {p} : Same(x)
  BY <1>2, PlacesLemma DEF Same
<1>5. TransitionsKept
  BY <1>2, RowsOf DEF IndInv, Types, TransitionsKept
<1>6. CASE p \in Client
  <2>1. r[1] # "COMMITTED"
    BY <1>3, OutcomesLemma
  <2>2. Seen(r)' = r /\ result'[p] = r
    BY <1>1, <1>2, <2>1 DEF Seen
  <2> QED BY <1>2, <1>3, <1>4, <1>5, <1>6, <2>2, DecideOnce DEF Once!OnceNext
<1>7. CASE p \notin Client
  <2>1. \A k \in Key : operation'[k] = operation[k]
    BY <1>2, <1>7, DecidedLemma
  <2> QED BY <1>4, <1>5, <1>7, <2>1, UnseenLemma DEF Once!onceVars
<1> QED BY <1>6, <1>7

\* Who goes away takes the answer along.
LEMMA LeaveOnce ==
    ASSUME IndInv, NEW p \in Caller, Leave(p), UNCHANGED rows
    PROVE  [Once!OnceNext]_(Once!onceVars)
<1>1. transitions' = transitions /\ operation' = operation
  BY DEF rows
<1>2. pc'[p] = "idle" /\ \A x \in Caller \ {p} : Same(x)
  BY LeaveLemma
<1>3. TransitionsKept /\ Record' = Record
  BY <1>1, QuietOnce
<1>4. ToldOf(p)' = NoOne
  BY <1>2 DEF ToldOf
<1>5. CASE p \in Client
  <2>1. Told' = [Told EXCEPT ![p] = NoOne]
    BY <1>2, <1>3, <1>4, <1>5, ToldLemma
  <2> QED BY <1>3, <1>5, <2>1 DEF Once!Leave, Once!OnceNext
<1>6. CASE p \notin Client
  BY <1>1, <1>2, <1>3, <1>6, UnseenLemma DEF Once!onceVars
<1> QED BY <1>5, <1>6

\* A step that writes no row, and before and after which the caller has no answer.
LEMMA WorkOnce ==
    ASSUME IndInv, UNCHANGED rows, NEW p \in Caller, \A x \in Caller \ {p} : Same(x),
           pc[p] # "return",
           pc'[p] # "return" \/ result'[p] = TaskTypeUnresolved
    PROVE  UNCHANGED <<Record, Told>>
<1>1. transitions' = transitions /\ operation' = operation
  BY DEF rows
<1>2. ToldOf(p) = NoOne /\ ToldOf(p)' = NoOne
  BY DEF ToldOf
<1> QED BY <1>1, <1>2, QuietOnce, UnseenLemma

\* Each step of a caller is a step of ExactlyOnce, or is not seen.
LEMMA StepOnce ==
    ASSUME IndInv, NEW p \in Caller,
           \/ Step(p) \/ Crash(p) \/ Request(p) \/ PhaseC(p)
           \/ p \in Client /\ RequestUnknownTask(p)
    PROVE  [Once!OnceNext]_(Once!onceVars)
<1>1. /\ pc \in [Caller -> Places] /\ ask \in [Caller -> AnyRequest \union {NoOne}]
      /\ result \in [Caller -> Answers]
  BY PlacesLemma
<1>2. CASE Request(p) \/ PhaseC(p)
  <2>1. PICK q : ask' = [ask EXCEPT ![p] = q]
    BY <1>2 DEF Request, PhaseC
  <2>2. /\ pc[p] = "idle" /\ result' = result /\ UNCHANGED rows
        /\ pc' = [pc EXCEPT ![p] = "reserve"] \/ pc' = [pc EXCEPT ![p] = "apply"]
    BY <1>2 DEF Request, PhaseC, Goto
  <2>3. pc'[p] # "return" /\ \A x \in Caller \ {p} : Same(x)
    BY <1>1, <2>1, <2>2 DEF Same
  <2> QED BY <2>2, <2>3, WorkOnce DEF Once!onceVars
<1>3. CASE p \in Client /\ RequestUnknownTask(p)
  <2>1. /\ pc[p] = "idle" /\ pc' = [pc EXCEPT ![p] = "return"] /\ ask' = ask
        /\ result' = [result EXCEPT ![p] = TaskTypeUnresolved] /\ UNCHANGED rows
    BY <1>3 DEF RequestUnknownTask, Goto, Result
  <2>2. result'[p] = TaskTypeUnresolved /\ \A x \in Caller \ {p} : Same(x)
    BY <1>1, <2>1 DEF Same
  <2> QED BY <2>1, <2>2, WorkOnce DEF Once!onceVars
<1>4. CASE Reserve(p)
  <2>1. /\ pc[p] = "reserve" /\ ask' = ask /\ result' = result /\ UNCHANGED rows
        /\ pc' = [pc EXCEPT ![p] = "apply"] \/ pc' = [pc EXCEPT ![p] = "replay"]
    BY <1>4 DEF Reserve, Goto
  <2>2. pc'[p] # "return" /\ \A x \in Caller \ {p} : Same(x)
    BY <1>1, <2>1 DEF Same
  <2> QED BY <2>1, <2>2, WorkOnce DEF Once!onceVars
<1>5. CASE Replay(p)
  <2>1. p \in Client
    BY <1>5, ClientLemma DEF Replay
  <2> QED BY <1>5, <2>1, ReplayOnce DEF Once!OnceNext
<1>6. CASE Apply(p)
  <2>1. PICK r : result' = [result EXCEPT ![p] = r]
    BY <1>6 DEF Apply, Result
  <2>2. /\ pc[p] = "apply" /\ ask' = ask /\ UNCHANGED rows
        /\ pc' = [pc EXCEPT ![p] = "record"]
    BY <1>6 DEF Apply, Goto
  <2>3. pc'[p] # "return" /\ \A x \in Caller \ {p} : Same(x)
    BY <1>1, <2>1, <2>2 DEF Same
  <2> QED BY <2>2, <2>3, WorkOnce DEF Once!onceVars
<1>7. CASE RecordTransition(p) \/ RecordRejection(p)
  BY <1>7, RecordOnce, RejectOnce
<1>8. CASE Receive(p) \/ Crash(p)
  <2>1. Leave(p) /\ UNCHANGED rows
    BY <1>8 DEF Receive, Crash
  <2> QED BY <2>1, LeaveOnce
<1> QED BY <1>2, <1>3, <1>4, <1>5, <1>6, <1>7, <1>8 DEF Step

\* request_workflow_transition implements ExactlyOnce: the first decision under a key, rejections
\* included (CR-27), is the answer to everyone who repeats the request, crashes or not, and
\* whatever Phase C does in between.
THEOREM WorkflowExactlyOnce == Spec => ExactlyOnceSpec
<1>1. Init => Once!OnceInit
  <2> SUFFICES ASSUME Init PROVE Once!OnceInit
    OBVIOUS
  <2>1. /\ \A k \in Key : RecordOf(k) = NoOne
        /\ \A p \in Client : ToldOf(p) = NoOne
    BY DEF Init, RecordOf, ToldOf, Caller
  <2> QED BY <2>1, MappingLemma DEF Once!OnceInit
<1>2. IndInv /\ [Next]_vars => [Once!OnceNext]_(Once!onceVars)
  <2> SUFFICES ASSUME IndInv, [Next]_vars PROVE [Once!OnceNext]_(Once!onceVars)
    OBVIOUS
  <2>1. ASSUME UNCHANGED vars PROVE UNCHANGED <<Record, Told>>
    <3>1. /\ transitions' = transitions /\ operation' = operation
          /\ pc' = pc /\ ask' = ask /\ result' = result
      BY <2>1 DEF vars, rows
    <3> QED BY <3>1 DEF Record, Told, Seen, PayloadHash
  <2> QED BY <2>1, StepOnce DEF Next, Once!onceVars, Caller
<1> QED BY <1>1, <1>2, Invariance, PTL DEF Spec, ExactlyOnceSpec, Once!OnceSpec
===============================================================================
