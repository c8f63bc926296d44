------------------------- MODULE ContextEngineProofs -------------------------
(***************************************************************************)
(* Proofs about ContextEngine, for any number of callers, objects,         *)
(* versions, keys, changes and crashes.                                    *)
(***************************************************************************)
EXTENDS ContextEngine, FiniteSetTheorems, TLAPS

-------------------------------------------------------------------------------
\* Sequences, of whatever they hold.
IsSeq(s) == s \in Seq(Range(s))

\* What Append does to the elements, the length and the range of a sequence.
LEMMA AppendLemma ==
    ASSUME NEW s, IsSeq(s), NEW e
    PROVE  /\ IsSeq(Append(s, e))
           /\ Len(Append(s, e)) = Len(s) + 1 /\ Len(s) \in Nat
           /\ \A i \in 1..Len(s) : Append(s, e)[i] = s[i]
           /\ Append(s, e)[Len(s) + 1] = e
           /\ DOMAIN s = 1..Len(s) /\ DOMAIN Append(s, e) = 1..Len(s) + 1
           /\ Range(Append(s, e)) = Range(s) \union {e}
<1> DEFINE S == Range(s) \union {e}
<1>1. s \in Seq(S) /\ Append(s, e) \in Seq(S)
  BY DEF IsSeq
<1>2. /\ Len(Append(s, e)) = Len(s) + 1 /\ Len(s) \in Nat
      /\ \A i \in 1..Len(s) : Append(s, e)[i] = s[i]
      /\ Append(s, e)[Len(s) + 1] = e
      /\ DOMAIN s = 1..Len(s) /\ DOMAIN Append(s, e) = 1..Len(s) + 1
  BY <1>1
<1>3. Range(Append(s, e)) = Range(s) \union {e}
  BY <1>2 DEF Range
<1> QED BY <1>1, <1>2, <1>3 DEF IsSeq

\* The empty sequence.
LEMMA EmptyLemma == IsSeq(<< >>) /\ Len(<< >>) = 0 /\ Range(<< >>) = {}
<1>1. << >> \in Seq({})
  OBVIOUS
<1> QED BY <1>1 DEF IsSeq, Range

\* A sequence of one element.
LEMMA SingletonLemma ==
    ASSUME NEW e
    PROVE  IsSeq(<<e>>) /\ Len(<<e>>) = 1 /\ Range(<<e>>) = {e} /\ <<e>> # << >>
<1>1. <<e>> \in Seq({e}) /\ Len(<<e>>) = 1 /\ <<e>>[1] = e
  OBVIOUS
<1> QED BY <1>1 DEF IsSeq, Range

\* The elements of a sequence.
LEMMA ElementLemma ==
    ASSUME NEW S, NEW s \in Seq(S), NEW i \in 1..Len(s)
    PROVE  s[i] \in S
OBVIOUS

\* A sequence over one set, by its elements one over another.
LEMMA NarrowLemma ==
    ASSUME NEW S, NEW T, NEW s \in Seq(S), \A i \in 1..Len(s) : s[i] \in T
    PROVE  s \in Seq(T)
OBVIOUS

\* The two tables of the contract.
LEMMA ContractLemma ==
    /\ Len(RequiredRelations) \in Nat /\ Len(RequiredRelations) > 0
    /\ DOMAIN RequiredRelations = 1..Len(RequiredRelations)
    /\ Len(RequiredEvidence) \in Nat /\ Len(RequiredEvidence) > 0
    /\ DOMAIN RequiredEvidence = 1..Len(RequiredEvidence)
BY DEF RequiredRelations, RequiredEvidence

-------------------------------------------------------------------------------
\* The inductive invariant.

Requests == [key : Key, payload : Payload]

\* Where a caller owns the reservation of its key, uncommitted.
Owns(p) == pc[p] \in {"target", "pinned", "version", "relations", "dependencies", "evidence",
                      "commit", "reject"}

Contents ==
    /\ history \in Seq(Content)
    /\ Len(history) \in 1..MaxChanges + 1
    /\ \A i \in 1..Len(history) : Consistent(history[i])

\* The committed rows name each other.
Rows ==
    /\ IsSeq(packages)
    /\ audits \in Seq([package : Nat, version : Version \union {Null}])
    /\ Len(audits) = Len(packages)
    /\ \A i \in 1..Len(packages) :
          /\ packages[i].key \in Key /\ packages[i].payload \in Payload
          /\ audits[i].package = i
          /\ operation[packages[i].key] = [hash |-> packages[i].payload, outcome |-> Committed(i)]
          /\ operation[packages[i].key] # NoOne
    /\ DOMAIN operation = Key
    /\ \A k \in Key : operation[k] # NoOne =>
          /\ operation[k].hash \in Payload
          /\ \/ operation[k].outcome \in Rejections
             \/ \E i \in 1..Len(packages) :
                   operation[k].outcome = Committed(i) /\ packages[i].key = k

\* A key that somebody has reserved is not decided yet.
Locks ==
    /\ keyLock \in [Key -> Proc \union {NoOne}]
    /\ \A k \in Key : keyLock[k] # NoOne =>
          operation[k] = NoOne /\ Owns(keyLock[k]) /\ ask[keyLock[k]].key = k
    /\ \A p \in Proc : Owns(p) => keyLock[ask[p].key] = p

Functions ==
    /\ DOMAIN pc = Proc /\ DOMAIN ask = Proc /\ DOMAIN since = Proc /\ DOMAIN round = Proc
    /\ DOMAIN snapshot = Proc /\ DOMAIN draft = Proc /\ DOMAIN result = Proc
    /\ pc = [p \in Proc |-> pc[p]] /\ ask = [p \in Proc |-> ask[p]]
    /\ since = [p \in Proc |-> since[p]] /\ round = [p \in Proc |-> round[p]]
    /\ snapshot = [p \in Proc |-> snapshot[p]]
    /\ crashes \in 0..MaxCrashes

\* The version a package is about, and the gaps a request starts with.
Effective(c, q) ==
    IF q.pinned = Null THEN c.pointer[q.object]
    ELSE IF c.status[q.pinned] = "APPROVED_CONTENT" THEN q.pinned ELSE Null

PinGap(q) == [gap |-> "APPROVAL_INSUFFICIENT", of |-> q.pinned]
PointerGap(q) == [gap |-> "NO_APPROVED_VERSION", of |-> q.object]

PinGaps(c, q) == IF q.pinned # Null /\ Effective(c, q) = Null THEN <<PinGap(q)>> ELSE << >>
FirstGaps(c, q) ==
    IF Effective(c, q) # Null THEN {} ELSE IF q.pinned # Null THEN {PinGap(q)} ELSE {PointerGap(q)}
FirstEntries(c, q) == IF Effective(c, q) = Null THEN {} ELSE {Entry(c, Effective(c, q))}

Entries(c, relations) == {Entry(c, c.pointer[r.to]) : r \in {x \in relations : x.satisfied}}
RelationGaps(relations) ==
    {[gap |-> "BLOCKED_BY_DEPENDENCY", of |-> r.id] : r \in {x \in relations : ~x.satisfied}}
EvidenceGaps(evidence) ==
    {[gap |-> "EVIDENCE_MISSING", of |-> e.class] : e \in {x \in evidence : x.source = Null}}

\* What has been read of the relations and the evidence is what the snapshot has.
Collected(c, q, d) ==
    /\ OutcomeAt(c, q) = "COMMITTED"
    /\ d.effective = Effective(c, q)
    /\ IsSeq(d.approved) /\ IsSeq(d.resolved) /\ IsSeq(d.relations) /\ IsSeq(d.evidence)
    /\ IsSeq(d.gaps)
    /\ Len(d.resolved) <= Len(RequiredRelations) /\ Len(d.relations) <= Len(d.resolved)
    /\ Len(d.evidence) <= Len(RequiredEvidence)
    /\ \A i \in 1..Len(d.resolved) : d.resolved[i] = Resolution(c, q.object, RequiredRelations[i])
    /\ \A i \in 1..Len(d.relations) : d.relations[i] = d.resolved[i]
    /\ \A i \in 1..Len(d.evidence) : d.evidence[i] = Evidence(c, q.object, RequiredEvidence[i])
    /\ Range(d.approved) = FirstEntries(c, q) \union Entries(c, Range(d.relations))
    /\ Range(d.gaps) = FirstGaps(c, q) \union RelationGaps(Range(d.relations))
                         \union EvidenceGaps(Range(d.evidence))

\* A draft before the first entry.
NoEntries(d) ==
    d.resolved = << >> /\ d.approved = << >> /\ d.relations = << >> /\ d.evidence = << >>

\* What each statement has left in the draft, as a function of the snapshot alone.
Drafted(at, c, q, d) ==
    /\ at \notin {"pinned", "version", "relations", "dependencies", "evidence", "commit", "reject"} =>
          d = Nothing
    /\ at = "pinned" =>
          /\ q.pinned # Null
          /\ d.target = c.pointer[q.object] /\ d.effective = Null /\ d.gaps = << >> /\ NoEntries(d)
    /\ at = "version" =>
          /\ OutcomeAt(c, q) = "COMMITTED"
          /\ d.effective = Effective(c, q) /\ d.gaps = PinGaps(c, q) /\ NoEntries(d)
    /\ at \in {"relations", "dependencies", "evidence", "commit"} => Collected(c, q, d)
    /\ at = "relations" =>
          Len(d.resolved) < Len(RequiredRelations) /\ Len(d.relations) = 0 /\ Len(d.evidence) = 0
    /\ at \in {"dependencies", "evidence", "commit"} => Len(d.resolved) = Len(RequiredRelations)
    /\ at = "dependencies" => Len(d.relations) < Len(d.resolved) /\ Len(d.evidence) = 0
    /\ at \in {"evidence", "commit"} => Len(d.relations) = Len(d.resolved)
    /\ at = "evidence" => Len(d.evidence) < Len(RequiredEvidence)
    /\ at = "commit" => Len(d.evidence) = Len(RequiredEvidence)

Results == Rejections \union ({"COMMITTED"} \X (1..Len(packages)))
           \union {NoResult, IdempotencyConflict, TaskTypeUnresolved, SessionInUse, IntegrityError}

\* What one caller may rely on.
Caller(p) ==
    /\ pc[p] \in {"idle", "begin", "insert", "target", "pinned", "version", "relations",
                  "dependencies", "evidence", "commit", "reject", "replay", "return"}
    /\ ask[p] \in Requests \union {NoOne}
    /\ pc[p] = "idle" => ask[p] = NoOne
    /\ pc[p] \in {"idle", "return"} => since[p] = 0 /\ round[p] = 0
    /\ pc[p] \notin {"idle", "return"} =>
          ask[p] \in Requests /\ since[p] \in 1..Len(history) /\ round[p] \in {1, 2}
    /\ snapshot[p] \in [content : 0..Len(history), keys : SUBSET Key]
    /\ pc[p] = "insert" \/ Owns(p) => snapshot[p].content \in since[p]..Len(history)
    /\ \A k \in snapshot[p].keys : operation[k] # NoOne
    /\ round[p] = 2 => pc[p] \in {"begin", "insert", "replay"} /\ operation[ask[p].key] # NoOne
    /\ round[p] = 2 /\ pc[p] = "insert" => ask[p].key \in snapshot[p].keys
    /\ pc[p] = "replay" => operation[ask[p].key] # NoOne
    /\ result[p] \in Results
    /\ pc[p] = "reject" => /\ result[p] \in Rejections
                           /\ result[p][1] = OutcomeAt(history[snapshot[p].content], ask[p].payload)
    /\ DOMAIN draft[p] = DOMAIN Nothing
    /\ Drafted(pc[p], history[snapshot[p].content], ask[p].payload, draft[p])

IndInv == Contents /\ Rows /\ Locks /\ Functions /\ \A p \in Proc : Caller(p)

-------------------------------------------------------------------------------
\* The parts of the invariant give the types.
LEMMA TypesFollow == IndInv => TypeOK
<1> SUFFICES ASSUME IndInv PROVE TypeOK
  OBVIOUS
<1> USE DEF IndInv
<1>1. \A i \in DOMAIN history : history[i] \in Content /\ Consistent(history[i])
  BY DEF Contents
<1>2. DOMAIN packages = 1..Len(packages) /\ Len(packages) \in Nat
  BY DEF Rows, IsSeq
<1>3. \A i \in DOMAIN packages : packages[i].key \in Key /\ packages[i].payload \in Payload
  BY <1>2 DEF Rows
<1>4. audits \in Seq([package : DOMAIN packages, version : Version \union {Null}])
  <2> DEFINE A == [package : Nat, version : Version \union {Null}]
             B == [package : DOMAIN packages, version : Version \union {Null}]
  <2>1. audits \in Seq(A) /\ Len(audits) = Len(packages)
    BY DEF Rows
  <2>2. ASSUME NEW i \in 1..Len(audits) PROVE audits[i] \in B
    <3> HIDE DEF A
    <3>1. audits[i] \in A
      BY <2>1, ElementLemma
    <3>2. audits[i].package = i /\ i \in DOMAIN packages
      BY <1>2, <2>1 DEF Rows
    <3> QED BY <3>1, <3>2 DEF A
  <2> HIDE DEF A, B
  <2>3. audits \in Seq(B)
    BY <2>1, <2>2, NarrowLemma
  <2> QED BY <2>3 DEF B
<1>5. ASSUME NEW k \in Key, operation[k] # NoOne
      PROVE  /\ operation[k].hash \in Payload
             /\ operation[k].outcome \in Rejections \union ({"COMMITTED"} \X DOMAIN packages)
  <2>1. CASE operation[k].outcome \in Rejections
    BY <1>5, <2>1 DEF Rows
  <2>2. CASE \E i \in 1..Len(packages) : operation[k].outcome = <<"COMMITTED", i>>
    BY <1>2, <1>5, <2>2 DEF Rows
  <2> QED BY <1>5, <2>1, <2>2 DEF Rows, Committed
<1>6. \A p \in Proc : result[p] \in Rejections \union ({"COMMITTED"} \X DOMAIN packages)
        \union {NoResult, IdempotencyConflict, TaskTypeUnresolved, SessionInUse, IntegrityError}
  BY <1>2 DEF Caller, Results
<1>7. /\ snapshot \in [Proc -> [content : 0..Len(history), keys : SUBSET Key]]
      /\ pc \in [Proc -> {"idle", "begin", "insert", "target", "pinned", "version", "relations",
                        "dependencies", "evidence", "commit", "reject", "replay", "return"}]
      /\ ask \in [Proc -> [key : Key, payload : Payload] \union {NoOne}]
  BY DEF Functions, Caller, Requests
<1>8. /\ since \in [Proc -> 0..Len(history)]
      /\ round \in [Proc -> 0..MaxRounds]
  <2>1. \A p \in Proc : since[p] \in 0..Len(history) /\ round[p] \in 0..MaxRounds
    BY DEF Contents, Caller, MaxRounds
  <2> QED BY <2>1 DEF Functions
<1>9. \A p \in Proc : DOMAIN draft[p] = DOMAIN Nothing
  BY DEF Caller
<1>10. keyLock \in [Key -> Proc \union {NoOne}] /\ crashes \in 0..MaxCrashes
  BY DEF Locks, Functions
<1> QED BY <1>1, <1>3, <1>4, <1>5, <1>6, <1>7, <1>8, <1>9, <1>10 DEF TypeOK, Contents

\* Nobody has asked for anything yet.
LEMMA InitInv == Init => IndInv
<1> SUFFICES ASSUME Init PROVE IndInv
  OBVIOUS
<1>1. Contents
  <2>1. PICK c \in Initial : history = <<c>>
    BY DEF Init
  <2>2. c \in Content /\ Consistent(c) /\ MaxChanges \in Nat
    BY ContextAssumption
  <2> QED BY <2>1, <2>2 DEF Contents
<1>2. Rows /\ Locks /\ Functions
  BY EmptyLemma, ContextAssumption DEF Init, Rows, Locks, Functions, Owns
<1>3. ASSUME NEW p \in Proc PROVE Caller(p)
  <2>1. Drafted("idle", history[0], NoOne, Nothing)
    BY DEF Drafted
  <2>2. pc[p] = "idle" /\ ask[p] = NoOne /\ since[p] = 0 /\ round[p] = 0 /\ snapshot[p] = NoSnapshot
        /\ draft[p] = Nothing /\ result[p] = NoResult
    BY DEF Init
  <2> QED BY <2>2, <1>1 DEF Contents, Caller, Drafted, Owns, Results, NoSnapshot
<1> QED BY <1>1, <1>2, <1>3 DEF IndInv

-------------------------------------------------------------------------------
\* What a step of one caller leaves to the others.

Same(x) ==
    /\ pc'[x] = pc[x] /\ ask'[x] = ask[x] /\ since'[x] = since[x] /\ round'[x] = round[x]
    /\ snapshot'[x] = snapshot[x] /\ draft'[x] = draft[x] /\ result'[x] = result[x]

\* Rows are added and never changed.
RowsGrow ==
    /\ Len(history) \in Nat /\ Len(history') \in Nat /\ Len(history) <= Len(history')
    /\ \A i \in 1..Len(history) : history'[i] = history[i]
    /\ Len(packages) \in Nat /\ Len(packages') \in Nat /\ Len(packages) <= Len(packages')
    /\ \A k \in Key : operation[k] # NoOne => operation'[k] = operation[k]

\* What one caller relies on survives the steps of the others: rows only grow.
LEMMA CallerFrame ==
    ASSUME NEW x \in Proc, Caller(x), Same(x), RowsGrow
    PROVE  Caller(x)'
<1> USE DEF Same
<1>1. Owns(x)' <=> Owns(x)
  BY DEF Owns
<1>2. Results \subseteq Results'
  BY DEF Results, RowsGrow
<1>3. snapshot[x] \in [content : 0..Len(history'), keys : SUBSET Key]
  BY DEF Caller, RowsGrow
<1>4. \A k \in snapshot[x].keys : operation'[k] # NoOne
  <2>1. snapshot[x].keys \subseteq Key
    BY DEF Caller
  <2> QED BY <2>1 DEF Caller, RowsGrow
<1>5. CASE Owns(x)
  <2>1. ask[x] \in Requests /\ since[x] \in 1..Len(history) /\ round[x] \in {1, 2} /\ round[x] # 2
        /\ snapshot[x].content \in since[x]..Len(history)
    BY <1>5 DEF Caller, Owns
  <2>2. history'[snapshot[x].content] = history[snapshot[x].content]
    BY <2>1 DEF RowsGrow
  <2>3. Drafted(pc[x], history'[snapshot'[x].content], ask[x].payload, draft[x])
    BY <2>2 DEF Caller
  <2>4. pc[x] \notin {"idle", "begin", "insert", "replay", "return"}
    BY <1>5 DEF Owns
  <2>5. since[x] \in 1..Len(history') /\ snapshot[x].content \in since[x]..Len(history')
    BY <2>1 DEF RowsGrow
  <2>6. pc[x] = "reject" => /\ result[x] \in Rejections
            /\ result[x][1] = OutcomeAt(history'[snapshot'[x].content], ask[x].payload)
    BY <2>2 DEF Caller
  <2> QED BY <1>1, <1>2, <1>3, <1>4, <2>1, <2>3, <2>4, <2>5, <2>6 DEF Caller
<1>6. CASE ~Owns(x)
  <2>1. Drafted(pc[x], history'[snapshot'[x].content], ask'[x].payload, draft[x])
    BY <1>6 DEF Caller, Drafted, Owns
  <2>2. pc[x] \notin {"idle", "return"} =>
            /\ ask[x] \in Requests /\ ask[x].key \in Key
            /\ since[x] \in 1..Len(history') /\ round[x] \in {1, 2}
    BY DEF Caller, RowsGrow, Requests
  <2>3. pc[x] = "insert" => snapshot[x].content \in since[x]..Len(history')
    BY DEF Caller, RowsGrow
  <2>4. round[x] = 2 => /\ pc[x] \in {"begin", "insert", "replay"} /\ operation'[ask[x].key] # NoOne
                        /\ (pc[x] = "insert" => ask[x].key \in snapshot[x].keys)
    BY <2>2 DEF Caller, RowsGrow
  <2>5. pc[x] = "replay" => operation'[ask[x].key] # NoOne
    BY <2>2 DEF Caller, RowsGrow
  <2>6. pc[x] # "reject"
    BY <1>6 DEF Owns
  <2> QED BY <1>1, <1>2, <1>3, <1>4, <1>6, <2>1, <2>2, <2>3, <2>4, <2>5, <2>6 DEF Caller
<1> QED BY <1>5, <1>6

\* A step of p keeps the invariant if it keeps the shared parts and p's own.
LEMMA StepLemma ==
    ASSUME IndInv, NEW p \in Proc, \A x \in Proc : x # p => Same(x), RowsGrow,
           Contents', Rows', Locks', Functions', Caller(p)'
    PROVE  IndInv'
<1>1. ASSUME NEW x \in Proc, x # p PROVE Caller(x)'
  BY <1>1, CallerFrame DEF IndInv
<1> QED BY <1>1 DEF IndInv

\* The rows stand as they are.
LEMMA NoGrowth ==
    ASSUME IndInv, UNCHANGED rows
    PROVE  RowsGrow /\ Contents' /\ Rows'
<1>1. Len(history) \in Nat /\ Len(packages) \in Nat
  BY DEF IndInv, Contents, Rows, IsSeq
<1> QED BY <1>1 DEF rows, RowsGrow, IndInv, Contents, Rows

\* A caller in the middle of a request has asked for something.
LEMMA AskLemma ==
    ASSUME IndInv, NEW p \in Proc, pc[p] \notin {"idle", "return"}
    PROVE  ask[p] \in Requests /\ ask[p].key \in Key /\ ask[p].payload \in Payload
<1>1. ask[p] \in Requests
  BY DEF IndInv, Caller
<1> QED BY <1>1 DEF Requests

-------------------------------------------------------------------------------
\* The other components: they append a content.
LEMMA ChangeStep ==
    ASSUME IndInv, NEW c, c \in Content, Consistent(c), Change(c)
    PROVE  IndInv'
<1>1. /\ history \in Seq(Content) /\ Len(history) \in 1..MaxChanges + 1 /\ MaxChanges \in Nat
      /\ Len(packages) \in Nat
  BY ContextAssumption DEF IndInv, Contents, Rows, IsSeq
<1>2. history' = Append(history, c) /\ Len(history) <= MaxChanges
  BY DEF Change
<1>3. /\ history' \in Seq(Content) /\ Len(history') = Len(history) + 1
      /\ \A i \in 1..Len(history) : history'[i] = history[i]
      /\ history'[Len(history) + 1] = c
  <2> HIDE DEF Content
  <2> QED BY <1>1, <1>2
<1>4. Contents'
  BY <1>1, <1>2, <1>3 DEF IndInv, Contents
<1>5. RowsGrow
  BY <1>1, <1>3 DEF RowsGrow, Change
<1>6. \A x \in Proc : Same(x)
  BY DEF Same, Change, request
<1>7. UNCHANGED <<packages, audits, operation, keyLock, snapshot, pc, ask, since, round, draft, result,
                  crashes>>
  BY DEF Change, request
<1>8. Rows'
  BY <1>7 DEF IndInv, Rows
<1>9. Locks'
  BY <1>7 DEF IndInv, Locks, Owns
<1>10. Functions'
  BY <1>7 DEF IndInv, Functions
<1> QED BY <1>4, <1>5, <1>6, <1>8, <1>9, <1>10, CallerFrame DEF IndInv

\* Every commit of the other components leaves a consistent content.
LEMMA EnvironmentStep == IndInv /\ Environment => IndInv'
<1> SUFFICES ASSUME IndInv, Environment PROVE IndInv'
  OBVIOUS
<1>1. Now \in Content /\ Consistent(Now)
  <2>1. history \in Seq(Content) /\ Len(history) \in 1..Len(history)
    BY ContextAssumption DEF IndInv, Contents
  <2>2. Now = history[Len(history)]
    BY DEF Now, Last
  <2>3. history[Len(history)] \in Content
    BY <2>1, ElementLemma
  <2> QED BY <2>1, <2>2, <2>3 DEF IndInv, Contents
<1> DEFINE n == Now
<1>2. n \in [pointer : [Object -> Version \union {Null}], status : [Version -> Status \union {Null}],
             relation : SUBSET Link, evidence : SUBSET Source]
  BY <1>1 DEF Content
<1>3. /\ \A o \in Object : n.pointer[o] # Null =>
            ObjectOf[n.pointer[o]] = o /\ n.status[n.pointer[o]] # Null
      /\ \A r, t \in n.relation : r.from = t.from /\ r.type = t.type => r = t
  BY <1>1 DEF Consistent
<1>4. /\ \A v \in Version : ObjectOf[v] \in Object /\ Null # v
      /\ Null \notin Version
  BY ContextAssumption
<1>5. ASSUME NEW v \in Version, Approve(v) PROVE IndInv'
  <2> DEFINE c == [n EXCEPT !.pointer[ObjectOf[v]] = v]
  <2>1. Change(c) /\ n.status[v] # Null
    BY <1>5 DEF Approve
  <2> HIDE DEF n
  <2>2. /\ c.pointer = [n.pointer EXCEPT ![ObjectOf[v]] = v] /\ c.status = n.status
        /\ c.relation = n.relation /\ c.evidence = n.evidence
    BY <1>2
  <2>3. c \in Content
    BY <1>2, <1>4 DEF Content
  <2>4. Consistent(c)
    BY <1>2, <1>3, <1>4, <2>1, <2>2 DEF Consistent
  <2> HIDE DEF c
  <2> QED BY <2>1, <2>3, <2>4, ChangeStep
<1>6. ASSUME NEW v \in Version, NEW st \in Status, Change([n EXCEPT !.status[v] = st]) PROVE IndInv'
  <2> DEFINE c == [n EXCEPT !.status[v] = st]
  <2>1. Change(c)
    BY <1>6
  <2> HIDE DEF n
  <2>2. /\ c.status = [n.status EXCEPT ![v] = st] /\ c.pointer = n.pointer
        /\ c.relation = n.relation /\ c.evidence = n.evidence
    BY <1>2
  <2>3. c \in Content
    BY <1>2 DEF Content
  <2>4. st # Null
    BY ContextAssumption
  <2>5. Consistent(c)
    BY <1>2, <1>3, <1>4, <2>2, <2>4 DEF Consistent
  <2> HIDE DEF c
  <2> QED BY <2>1, <2>3, <2>5, ChangeStep
<1>7. ASSUME NEW v \in Version, CreateVersion(v) \/ Transition(v) PROVE IndInv'
  BY <1>6, <1>7 DEF CreateVersion, Transition, Status
<1>8. ASSUME NEW r \in Link, InsertRelation(r) PROVE IndInv'
  <2> DEFINE c == [n EXCEPT !.relation = @ \union {r}]
  <2>1. Change(c) /\ Consistent(c)
    BY <1>8 DEF InsertRelation
  <2> HIDE DEF n
  <2>3. c \in Content
    BY <1>2 DEF Content
  <2> HIDE DEF c
  <2> QED BY <2>1, <2>3, ChangeStep
<1>9. ASSUME NEW t \in Source, InsertEvidence(t) PROVE IndInv'
  <2> DEFINE c == [n EXCEPT !.evidence = @ \union {t}]
  <2>1. Change(c)
    BY <1>9 DEF InsertEvidence
  <2> HIDE DEF n
  <2>2. c.status = n.status /\ c.pointer = n.pointer /\ c.relation = n.relation
    BY <1>2
  <2>3. c \in Content
    BY <1>2 DEF Content
  <2>4. Consistent(c)
    BY <1>3, <2>2 DEF Consistent
  <2> HIDE DEF c
  <2> QED BY <2>1, <2>3, <2>4, ChangeStep
<1> QED BY <1>5, <1>7, <1>8, <1>9 DEF Environment

-------------------------------------------------------------------------------
\* The beginning of a request.

\* The session is opened, or the request is refused before any table is touched.
LEMMA RequestStep ==
    ASSUME IndInv, NEW p \in Proc, Request(p) \/ RequestInVain(p)
    PROVE  IndInv'
<1> USE DEF IndInv
<1>1. UNCHANGED rows /\ UNCHANGED keyLock /\ UNCHANGED <<snapshot, draft, crashes>>
  BY DEF Request, RequestInVain
<1>2. RowsGrow /\ Contents' /\ Rows'
  BY <1>1, NoGrowth
<1>3. \A x \in Proc : x # p => Same(x)
  <2>1. CASE Request(p)
    BY <1>1, <2>1 DEF Same, Request, Goto, Functions
  <2>2. CASE RequestInVain(p)
    BY <1>1, <2>2 DEF Same, RequestInVain, request, Goto, Result, Functions
  <2> QED BY <2>1, <2>2
<1>4. pc[p] = "idle" /\ ~Owns(p) /\ ~Owns(p)' /\ pc'[p] \in {"begin", "return"}
  BY DEF Request, RequestInVain, Goto, Owns, Functions
<1>5. Functions'
  BY <1>1 DEF Functions, Request, RequestInVain, request, Goto, Result
<1>6. Locks'
  BY <1>1, <1>3, <1>4 DEF Locks, rows, Same, Owns
<1>7. Drafted(pc[p], history[snapshot[p].content], ask[p].payload, draft[p]) /\ Caller(p)
  BY DEF Caller
<1>8. draft'[p] = Nothing /\ Drafted(pc'[p], history'[snapshot'[p].content], ask'[p].payload, draft'[p])
  BY <1>1, <1>4, <1>7 DEF Drafted
<1>9. CASE Request(p)
  <2>1. ask'[p] \in Requests /\ since'[p] = Len(history) /\ round'[p] = 1 /\ pc'[p] = "begin"
        /\ result' = result
    BY <1>9 DEF Request, Requests, Goto, Functions
  <2>2. Len(history) \in 1..Len(history)
    BY DEF Contents
  <2>3. Caller(p)'
    BY <1>1, <1>4, <1>7, <1>8, <2>1, <2>2 DEF Caller, rows, Results
  <2> QED BY <1>2, <1>3, <1>5, <1>6, <2>3, StepLemma
<1>10. CASE RequestInVain(p)
  <2>1. pc'[p] = "return" /\ ask' = ask /\ since' = since /\ round' = round /\ result'[p] \in Results
    BY <1>10 DEF RequestInVain, request, Goto, Functions, Result, Results
  <2>2. Caller(p)'
    BY <1>1, <1>4, <1>7, <1>8, <2>1 DEF Caller, rows, Results
  <2> QED BY <1>2, <1>3, <1>5, <1>6, <2>2, StepLemma
<1> QED BY <1>9, <1>10

\* The snapshot is of the current content, and of the second round it sees the row.
LEMMA TakeSnapshotStep ==
    ASSUME IndInv, NEW p \in Proc, TakeSnapshot(p)
    PROVE  IndInv'
<1> USE DEF IndInv
<1>1. UNCHANGED rows /\ UNCHANGED <<keyLock, ask, since, round, draft, result, crashes>>
  BY DEF TakeSnapshot, request
<1>2. RowsGrow /\ Contents' /\ Rows'
  BY <1>1, NoGrowth
<1>3. \A x \in Proc : x # p => Same(x)
  BY <1>1 DEF Same, TakeSnapshot, Goto, Functions
<1>4. pc[p] = "begin" /\ ~Owns(p) /\ ~Owns(p)' /\ pc'[p] = "insert"
  BY DEF TakeSnapshot, Goto, Owns, Functions
<1>5. Functions'
  BY <1>1 DEF Functions, TakeSnapshot, Goto
<1>6. Locks'
  BY <1>1, <1>3, <1>4 DEF Locks, rows, Same, Owns
<1>7. Drafted(pc[p], history[snapshot[p].content], ask[p].payload, draft[p]) /\ Caller(p)
  BY DEF Caller
<1>8. Drafted(pc'[p], history'[snapshot'[p].content], ask'[p].payload, draft'[p])
  BY <1>1, <1>4, <1>7 DEF Drafted
<1>9. snapshot'[p] = [content |-> Len(history), keys |-> {k \in Key : operation[k] # NoOne}]
  BY DEF TakeSnapshot, Functions
<1>10. Len(history) \in Nat /\ Len(history) >= 1
  BY DEF Contents
<1>11. Caller(p)'
  <2>1. ask[p] \in Requests /\ since[p] \in 1..Len(history) /\ round[p] \in {1, 2} /\ ask[p].key \in Key
    BY <1>4, <1>7 DEF Caller, Requests
  <2>2. /\ snapshot'[p] \in [content : 0..Len(history), keys : SUBSET Key]
        /\ snapshot'[p].content \in since[p]..Len(history)
        /\ \A k \in snapshot'[p].keys : operation[k] # NoOne
    BY <1>9, <1>10, <2>1
  <2>3. round[p] = 2 => operation[ask[p].key] # NoOne /\ ask[p].key \in snapshot'[p].keys
    BY <1>7, <1>9, <2>1 DEF Caller
  <2> QED BY <1>1, <1>4, <1>7, <1>8, <2>1, <2>2, <2>3 DEF Caller, rows, Results
<1> QED BY <1>2, <1>3, <1>5, <1>6, <1>11, StepLemma

\* Whoever wins the key is the only one to hold it.
LEMMA WinReservationStep ==
    ASSUME IndInv, NEW p \in Proc, WinReservation(p)
    PROVE  IndInv'
<1> USE DEF IndInv
<1> DEFINE k == ask[p].key
<1>1. UNCHANGED rows /\ UNCHANGED <<snapshot, ask, since, round, draft, result, crashes>>
  BY DEF WinReservation, request
<1>2. RowsGrow /\ Contents' /\ Rows'
  BY <1>1, NoGrowth
<1>3. \A x \in Proc : x # p => Same(x)
  BY <1>1 DEF Same, WinReservation, Goto, Functions
<1>4. pc[p] = "insert" /\ ~Owns(p) /\ Owns(p)' /\ pc'[p] = "target"
  BY DEF WinReservation, Goto, Owns, Functions
<1>5. Functions'
  BY <1>1 DEF Functions, WinReservation, Goto
<1>6. keyLock' = [keyLock EXCEPT ![k] = p] /\ keyLock[k] = NoOne /\ operation[k] = NoOne
  BY DEF WinReservation
<1>7. Drafted(pc[p], history[snapshot[p].content], ask[p].payload, draft[p]) /\ Caller(p)
  BY DEF Caller
<1>8. ask[p] \in Requests /\ k \in Key /\ round[p] \in {1, 2} /\ round[p] # 2
  BY <1>4, <1>6, <1>7 DEF Caller, Requests
<1>9. p # NoOne
  BY ContextAssumption
<1>10. Locks'
  <2>1. keyLock' \in [Key -> Proc \union {NoOne}]
    BY <1>6, <1>8 DEF Locks
  <2>2. ASSUME NEW j \in Key, keyLock'[j] # NoOne
        PROVE  (operation[j] = NoOne /\ Owns(keyLock[j]) /\ ask[keyLock[j]].key = j)'
    <3>1. CASE j = k
      BY <1>1, <1>4, <1>6, <1>8, <3>1 DEF Locks, rows
    <3>2. CASE j # k
      <4>1. keyLock'[j] = keyLock[j] /\ keyLock[j] \in Proc
        BY <1>6, <2>2, <3>2 DEF Locks
      <4>2. keyLock[j] # p
        BY <1>4, <2>2, <4>1 DEF Locks
      <4> QED BY <1>1, <1>3, <2>2, <4>1, <4>2 DEF Locks, rows, Same, Owns
    <3> QED BY <3>1, <3>2
  <2>3. ASSUME NEW x \in Proc, Owns(x)' PROVE keyLock'[ask'[x].key] = x
    <3>1. CASE x = p
      BY <1>1, <1>6, <1>8, <3>1 DEF Locks
    <3>2. CASE x # p
      <4>1. Owns(x) /\ ask'[x] = ask[x]
        BY <1>3, <2>3, <3>2 DEF Same, Owns
      <4>2. keyLock[ask[x].key] = x /\ ask[x].key \in Key /\ x # NoOne
        <5>1. pc[x] \notin {"idle", "return"}
          BY <4>1 DEF Owns
        <5> QED BY <4>1, <5>1, AskLemma, ContextAssumption DEF Locks
      <4>3. keyLock \in [Key -> Proc \union {NoOne}] /\ ask[x].key # k
        BY <1>6, <4>2 DEF Locks
      <4> HIDE DEF k, IndInv
      <4>4. keyLock'[ask[x].key] = keyLock[ask[x].key]
        BY <1>6, <4>2, <4>3
      <4> QED BY <4>1, <4>2, <4>4
    <3> QED BY <3>1, <3>2
  <2> QED BY <2>1, <2>2, <2>3 DEF Locks
<1>11. Drafted(pc'[p], history'[snapshot'[p].content], ask'[p].payload, draft'[p])
  BY <1>1, <1>4, <1>7 DEF Drafted
<1>12. Caller(p)'
  BY <1>1, <1>4, <1>7, <1>8, <1>11 DEF Caller, rows, Results
<1> QED BY <1>2, <1>3, <1>5, <1>10, <1>12, StepLemma

-------------------------------------------------------------------------------
\* The end of a transaction.

\* What EndTransaction leaves of the transaction, and to the others.
LEMMA EndLemma ==
    ASSUME IndInv, NEW p \in Proc, EndTransaction(p)
    PROVE  /\ snapshot'[p] = NoSnapshot /\ draft'[p] = Nothing
           /\ \A x \in Proc : x # p => snapshot'[x] = snapshot[x] /\ draft'[x] = draft[x]
           /\ DOMAIN draft' = Proc /\ DOMAIN snapshot' = Proc
           /\ snapshot' = [x \in Proc |-> snapshot'[x]]
BY DEF EndTransaction, Draft, IndInv, Functions

\* Nobody else loses a lock, and what p has decided is what it had reserved.
LEMMA ReleaseLemma ==
    ASSUME IndInv, NEW p \in Proc, EndTransaction(p), ~Owns(p)',
           \A x \in Proc : x # p => Same(x),
           \A k \in Key : operation'[k] = operation[k] \/ keyLock[k] = p
    PROVE  Locks'
<1>1. /\ keyLock \in [Key -> Proc \union {NoOne}]
      /\ \A k \in Key : keyLock[k] # NoOne =>
            operation[k] = NoOne /\ Owns(keyLock[k]) /\ ask[keyLock[k]].key = k
      /\ \A x \in Proc : Owns(x) => keyLock[ask[x].key] = x
  BY DEF IndInv, Locks
<1>2. keyLock' = [k \in Key |-> IF keyLock[k] = p THEN NoOne ELSE keyLock[k]]
  BY <1>1 DEF EndTransaction
<1>3. keyLock' \in [Key -> Proc \union {NoOne}]
  BY <1>1, <1>2
<1>4. ASSUME NEW k \in Key, keyLock'[k] # NoOne
      PROVE  (operation[k] = NoOne /\ Owns(keyLock[k]) /\ ask[keyLock[k]].key = k)'
  <2>1. keyLock'[k] = keyLock[k] /\ keyLock[k] # p /\ keyLock[k] \in Proc
    BY <1>1, <1>2, <1>4
  <2>2. Same(keyLock[k])
    BY <2>1
  <2>3. operation[k] = NoOne /\ Owns(keyLock[k]) /\ ask[keyLock[k]].key = k
    BY <1>1, <1>4, <2>1
  <2> QED BY <2>1, <2>2, <2>3 DEF Same, Owns
<1>5. ASSUME NEW x \in Proc, Owns(x)' PROVE keyLock'[ask'[x].key] = x
  <2>1. x # p
    BY <1>5
  <2>2. Owns(x) /\ ask'[x] = ask[x]
    BY <1>5, <2>1 DEF Same, Owns
  <2>3. pc[x] \notin {"idle", "return"}
    BY <2>2 DEF Owns
  <2>4. ask[x].key \in Key /\ keyLock[ask[x].key] = x
    BY <1>1, <2>2, <2>3, AskLemma
  <2> QED BY <1>2, <2>1, <2>2, <2>4
<1> QED BY <1>3, <1>4, <1>5 DEF Locks

\* A caller that has its answer, or has died, relies on nothing.
LEMMA RestLemma ==
    ASSUME IndInv, NEW p \in Proc, RowsGrow, snapshot'[p] \in {NoSnapshot, snapshot[p]},
           draft'[p] = Nothing, pc'[p] \in {"idle", "return"}, since'[p] = 0, round'[p] = 0,
           ask'[p] \in Requests \union {NoOne}, pc'[p] = "idle" => ask'[p] = NoOne,
           result'[p] \in Results'
    PROVE  Caller(p)'
<1>1. snapshot'[p] \in [content : 0..Len(history'), keys : SUBSET Key]
  <2>1. snapshot[p] \in [content : 0..Len(history), keys : SUBSET Key]
    BY DEF IndInv, Caller
  <2>2. NoSnapshot \in [content : 0..Len(history'), keys : SUBSET Key]
    BY DEF RowsGrow, NoSnapshot
  <2> QED BY <2>1, <2>2 DEF RowsGrow
<1>2. \A k \in snapshot'[p].keys : operation'[k] # NoOne
  <2>1. snapshot[p].keys \subseteq Key /\ \A k \in snapshot[p].keys : operation[k] # NoOne
    BY DEF IndInv, Caller
  <2> QED BY <2>1 DEF RowsGrow, NoSnapshot
<1>3. ~Owns(p)'
  BY DEF Owns
<1>4. Drafted(pc[p], history[snapshot[p].content], ask[p].payload, draft[p])'
  BY DEF Drafted
<1> QED BY <1>1, <1>2, <1>3, <1>4 DEF Caller

\* The row the snapshot sees is decided, so the caller only reads its outcome.
LEMMA FindReservationStep ==
    ASSUME IndInv, NEW p \in Proc, FindReservation(p)
    PROVE  IndInv'
<1> DEFINE k == ask[p].key
<1>1. UNCHANGED rows /\ UNCHANGED <<ask, since, round, result, crashes>> /\ EndTransaction(p)
      /\ pc' = [pc EXCEPT ![p] = "replay"] /\ pc[p] = "insert" /\ k \in snapshot[p].keys
  BY DEF FindReservation, request, Goto
<1>2. RowsGrow /\ Contents' /\ Rows'
  BY <1>1, NoGrowth
<1>3. pc'[p] = "replay" /\ (\A x \in Proc : x # p => Same(x)) /\ Functions'
  BY <1>1, EndLemma DEF Same, IndInv, Functions
<1>4. ~Owns(p)'
  BY <1>3 DEF Owns
<1>5. Locks'
  BY <1>1, <1>3, <1>4, ReleaseLemma DEF rows
<1>6. Caller(p)'
  <2>1. /\ ask[p] \in Requests /\ since[p] \in 1..Len(history) /\ round[p] \in {1, 2}
        /\ result[p] \in Results /\ operation[k] # NoOne
    BY <1>1 DEF IndInv, Caller
  <2>2. snapshot'[p] = NoSnapshot /\ draft'[p] = Nothing
    BY <1>1, EndLemma
  <2>3. Drafted(pc[p], history[snapshot[p].content], ask[p].payload, draft[p])'
    BY <1>3, <2>2 DEF Drafted
  <2>4. NoSnapshot \in [content : 0..Len(history), keys : SUBSET Key] /\ NoSnapshot.keys = {}
    BY <1>2 DEF RowsGrow, NoSnapshot
  <2> QED BY <1>1, <1>3, <1>4, <2>1, <2>2, <2>3, <2>4 DEF Caller, rows, Results
<1> QED BY <1>2, <1>3, <1>5, <1>6, StepLemma

\* A round fails only on a row its snapshot does not see: not the second one.
LEMMA SerializationFailureStep ==
    ASSUME IndInv, NEW p \in Proc, SerializationFailure(p)
    PROVE  IndInv'
<1> DEFINE k == ask[p].key
<1>1. /\ UNCHANGED rows /\ UNCHANGED <<ask, since, result, crashes>> /\ EndTransaction(p)
      /\ pc' = [pc EXCEPT ![p] = "begin"] /\ round' = [round EXCEPT ![p] = @ + 1]
      /\ pc[p] = "insert" /\ operation[k] # NoOne /\ k \notin snapshot[p].keys
  BY DEF SerializationFailure, Goto
<1>2. RowsGrow /\ Contents' /\ Rows'
  BY <1>1, NoGrowth
<1>3. pc'[p] = "begin" /\ round'[p] = round[p] + 1 /\ (\A x \in Proc : x # p => Same(x)) /\ Functions'
  <2>1. pc'[p] = "begin" /\ round'[p] = round[p] + 1
    BY <1>1 DEF IndInv, Functions
  <2>2. \A x \in Proc : x # p => Same(x)
    BY <1>1, EndLemma DEF Same, IndInv, Functions
  <2>3. Functions'
    BY <1>1, EndLemma DEF IndInv, Functions
  <2> QED BY <2>1, <2>2, <2>3
<1>4. ~Owns(p)'
  BY <1>3 DEF Owns
<1>5. Locks'
  BY <1>1, <1>3, <1>4, ReleaseLemma DEF rows
<1>6. Caller(p)'
  <2>1. /\ ask[p] \in Requests /\ since[p] \in 1..Len(history) /\ round[p] \in {1, 2}
        /\ result[p] \in Results /\ round[p] # 2
    BY <1>1 DEF IndInv, Caller
  <2>2. snapshot'[p] = NoSnapshot /\ draft'[p] = Nothing
    BY <1>1, EndLemma
  <2>3. Drafted(pc[p], history[snapshot[p].content], ask[p].payload, draft[p])'
    BY <1>3, <2>2 DEF Drafted
  <2>4. NoSnapshot \in [content : 0..Len(history), keys : SUBSET Key] /\ NoSnapshot.keys = {}
    BY <1>2 DEF RowsGrow, NoSnapshot
  <2>5. round'[p] = 2
    BY <1>3, <2>1
  <2> QED BY <1>1, <1>3, <1>4, <2>1, <2>2, <2>3, <2>4, <2>5 DEF Caller, rows, Results
<1> QED BY <1>2, <1>3, <1>5, <1>6, StepLemma

\* The decided row is the answer, or refutes the payload.
LEMMA ReplayStep ==
    ASSUME IndInv, NEW p \in Proc, Replay(p)
    PROVE  IndInv'
<1> DEFINE found == operation[ask[p].key]
<1>1. /\ UNCHANGED rows /\ UNCHANGED <<ask, keyLock, snapshot, draft, crashes>>
      /\ pc' = [pc EXCEPT ![p] = "return"] /\ pc[p] = "replay"
      /\ since' = [since EXCEPT ![p] = 0] /\ round' = [round EXCEPT ![p] = 0]
      /\ result' = [result EXCEPT ![p] = IF found.hash = ask[p].payload THEN found.outcome
                                         ELSE IdempotencyConflict]
  BY DEF Replay, Answered, Goto, Result
<1>2. RowsGrow /\ Contents' /\ Rows'
  BY <1>1, NoGrowth
<1>3. /\ pc'[p] = "return" /\ since'[p] = 0 /\ round'[p] = 0
      /\ \A x \in Proc : x # p => Same(x)
      /\ Functions'
  BY <1>1 DEF Same, IndInv, Functions
<1>4. ~Owns(p) /\ ~Owns(p)'
  BY <1>1, <1>3 DEF Owns
<1>5. Locks'
  BY <1>1, <1>3, <1>4 DEF IndInv, Locks, rows, Same, Owns
<1>6. result'[p] \in Results
  <2>1. found # NoOne /\ ask[p].key \in Key
    BY <1>1, AskLemma DEF IndInv, Caller
  <2>2. found.outcome \in Results
    <3>1. \/ found.outcome \in Rejections
          \/ \E i \in 1..Len(packages) : found.outcome = Committed(i)
      BY <2>1 DEF IndInv, Rows
    <3>2. \A i \in 1..Len(packages) : Committed(i) \in {"COMMITTED"} \X (1..Len(packages))
      BY DEF Committed
    <3> QED BY <3>1, <3>2 DEF Results
  <2> QED BY <1>1, <2>2 DEF Results, IndInv, Functions
<1>7. Caller(p)'
  <2>1. draft[p] = Nothing /\ ask[p] \in Requests
    BY <1>1 DEF IndInv, Caller, Drafted
  <2>2. Results' = Results
    BY <1>1 DEF Results, rows
  <2> QED BY <1>1, <1>2, <1>3, <1>6, <2>1, <2>2, RestLemma
<1> QED BY <1>2, <1>3, <1>5, <1>7, StepLemma

\* The answer is received.
LEMMA ReceiveStep ==
    ASSUME IndInv, NEW p \in Proc, Receive(p)
    PROVE  IndInv'
<1>1. /\ UNCHANGED rows /\ UNCHANGED <<keyLock, snapshot, draft, crashes>>
      /\ pc' = [pc EXCEPT ![p] = "idle"] /\ pc[p] = "return" /\ ask' = [ask EXCEPT ![p] = NoOne]
      /\ since' = [since EXCEPT ![p] = 0] /\ round' = [round EXCEPT ![p] = 0]
      /\ result' = [result EXCEPT ![p] = NoResult]
  BY DEF Receive, Leave, Goto, Result
<1>2. RowsGrow /\ Contents' /\ Rows'
  BY <1>1, NoGrowth
<1>3. /\ pc'[p] = "idle" /\ since'[p] = 0 /\ round'[p] = 0 /\ ask'[p] = NoOne /\ result'[p] = NoResult
      /\ \A x \in Proc : x # p => Same(x)
      /\ Functions'
  BY <1>1 DEF Same, IndInv, Functions
<1>4. ~Owns(p) /\ ~Owns(p)'
  BY <1>1, <1>3 DEF Owns
<1>5. Locks'
  BY <1>1, <1>3, <1>4 DEF IndInv, Locks, rows, Same, Owns
<1>6. Caller(p)'
  <2>1. draft[p] = Nothing
    BY <1>1 DEF IndInv, Caller, Drafted
  <2>2. NoResult \in Results'
    BY DEF Results
  <2> QED BY <1>1, <1>2, <1>3, <2>1, <2>2, RestLemma
<1> QED BY <1>2, <1>3, <1>5, <1>6, StepLemma

\* A caller that dies leaves nothing uncommitted.
LEMMA CrashStep ==
    ASSUME IndInv, NEW p \in Proc, Crash(p)
    PROVE  IndInv'
<1>1. /\ UNCHANGED rows /\ EndTransaction(p)
      /\ crashes < MaxCrashes /\ crashes' = crashes + 1
      /\ pc' = [pc EXCEPT ![p] = "idle"] /\ ask' = [ask EXCEPT ![p] = NoOne]
      /\ since' = [since EXCEPT ![p] = 0] /\ round' = [round EXCEPT ![p] = 0]
      /\ result' = [result EXCEPT ![p] = NoResult]
  BY DEF Crash, Leave, Goto, Result
<1>2. RowsGrow /\ Contents' /\ Rows'
  BY <1>1, NoGrowth
<1>3. /\ pc'[p] = "idle" /\ since'[p] = 0 /\ round'[p] = 0 /\ ask'[p] = NoOne /\ result'[p] = NoResult
      /\ \A x \in Proc : x # p => Same(x)
      /\ Functions'
  <2>1. crashes' \in 0..MaxCrashes
    BY <1>1, ContextAssumption DEF IndInv, Functions
  <2> QED BY <1>1, <2>1, EndLemma DEF Same, IndInv, Functions
<1>4. ~Owns(p)'
  BY <1>3 DEF Owns
<1>5. Locks'
  BY <1>1, <1>3, <1>4, ReleaseLemma DEF rows
<1>6. Caller(p)'
  <2>1. snapshot'[p] = NoSnapshot /\ draft'[p] = Nothing
    BY <1>1, EndLemma
  <2>2. NoResult \in Results'
    BY DEF Results
  <2> QED BY <1>2, <1>3, <2>1, <2>2, RestLemma
<1> QED BY <1>2, <1>3, <1>5, <1>6, StepLemma

\* The aborted transaction gives the key back undecided.
LEMMA FailToInsertStep ==
    ASSUME IndInv, NEW p \in Proc, FailToInsert(p)
    PROVE  IndInv'
<1>1. /\ UNCHANGED rows /\ UNCHANGED <<ask, crashes>> /\ EndTransaction(p) /\ pc[p] = "commit"
      /\ pc' = [pc EXCEPT ![p] = "return"]
      /\ since' = [since EXCEPT ![p] = 0] /\ round' = [round EXCEPT ![p] = 0]
      /\ result' = [result EXCEPT ![p] = IntegrityError]
  BY DEF FailToInsert, Answered, Goto, Result
<1>2. RowsGrow /\ Contents' /\ Rows'
  BY <1>1, NoGrowth
<1>3. /\ pc'[p] = "return" /\ since'[p] = 0 /\ round'[p] = 0 /\ result'[p] = IntegrityError
      /\ \A x \in Proc : x # p => Same(x)
      /\ Functions'
  BY <1>1, EndLemma DEF Same, IndInv, Functions
<1>4. ~Owns(p)'
  BY <1>3 DEF Owns
<1>5. Locks'
  BY <1>1, <1>3, <1>4, ReleaseLemma DEF rows
<1>6. Caller(p)'
  <2>1. snapshot'[p] = NoSnapshot /\ draft'[p] = Nothing /\ ask[p] \in Requests
    BY <1>1, EndLemma, AskLemma
  <2>2. IntegrityError \in Results'
    BY DEF Results
  <2> QED BY <1>1, <1>2, <1>3, <2>1, <2>2, RestLemma
<1> QED BY <1>2, <1>3, <1>5, <1>6, StepLemma

\* The rejection decides a key that had no package.
LEMMA RejectStep ==
    ASSUME IndInv, NEW p \in Proc, Reject(p)
    PROVE  IndInv'
<1> DEFINE k == ask[p].key
           row == [hash |-> ask[p].payload, outcome |-> result[p]]
<1>1. /\ UNCHANGED <<history, packages, audits, result, ask, crashes>> /\ EndTransaction(p)
      /\ operation' = [operation EXCEPT ![k] = row]
      /\ pc' = [pc EXCEPT ![p] = "return"] /\ pc[p] = "reject"
      /\ since' = [since EXCEPT ![p] = 0] /\ round' = [round EXCEPT ![p] = 0]
  BY DEF Reject, Decided, Answered, Goto
<1>2. k \in Key /\ ask[p].payload \in Payload /\ ask[p] \in Requests /\ result[p] \in Rejections
  BY <1>1, AskLemma DEF IndInv, Caller
<1>3. keyLock[k] = p /\ operation[k] = NoOne
  <2>1. Owns(p)
    BY <1>1 DEF Owns
  <2> QED BY <1>2, <2>1, ContextAssumption DEF IndInv, Locks
<1>4. DOMAIN operation = Key /\ operation'[k] = row /\ \A j \in Key : j # k => operation'[j] = operation[j]
  BY <1>1, <1>2 DEF IndInv, Rows
<1>5. Contents' /\ RowsGrow
  BY <1>1, <1>3, <1>4 DEF IndInv, Contents, Rows, IsSeq, RowsGrow
<1>6. Rows'
  <2>1. \A i \in 1..Len(packages) : packages[i].key # k /\ packages[i].key \in Key
    BY <1>3 DEF IndInv, Rows
  <2>2. ASSUME NEW i \in 1..Len(packages) PROVE operation'[packages[i].key] = operation[packages[i].key]
    BY <1>4, <2>1
  <2>3. ASSUME NEW j \in Key, operation'[j] # NoOne
        PROVE  /\ operation'[j].hash \in Payload
               /\ \/ operation'[j].outcome \in Rejections
                  \/ \E i \in 1..Len(packages) :
                        operation'[j].outcome = Committed(i) /\ packages[i].key = j
    <3>1. CASE j = k
      BY <1>2, <1>4, <3>1
    <3>2. CASE j # k
      <4>1. operation'[j] = operation[j] /\ operation[j] # NoOne
        BY <1>4, <2>3, <3>2
      <4> QED BY <4>1 DEF IndInv, Rows
    <3> QED BY <3>1, <3>2
  <2>4. DOMAIN operation' = Key
    BY <1>1, <1>4
  <2> QED BY <1>1, <2>2, <2>3, <2>4 DEF IndInv, Rows
<1>7. /\ pc'[p] = "return" /\ since'[p] = 0 /\ round'[p] = 0
      /\ \A x \in Proc : x # p => Same(x)
      /\ Functions'
  BY <1>1, EndLemma DEF Same, IndInv, Functions
<1>8. ~Owns(p)'
  BY <1>7 DEF Owns
<1>9. Locks'
  <2>1. \A j \in Key : operation'[j] = operation[j] \/ keyLock[j] = p
    BY <1>3, <1>4
  <2> QED BY <1>1, <1>7, <1>8, <2>1, ReleaseLemma
<1>10. Caller(p)'
  <2>1. snapshot'[p] = NoSnapshot /\ draft'[p] = Nothing
    BY <1>1, EndLemma
  <2>2. result[p] \in Results'
    BY <1>2 DEF Results
  <2> QED BY <1>1, <1>2, <1>5, <1>7, <2>1, <2>2, RestLemma
<1> QED BY <1>5, <1>6, <1>7, <1>9, <1>10, StepLemma

\* The new package is the first of its key, since the key was reserved and not decided.
LEMMA CommitPackageStep ==
    ASSUME IndInv, NEW p \in Proc, CommitPackage(p)
    PROVE  IndInv'
<1> DEFINE k == ask[p].key
           n == Len(packages) + 1
           row == [hash |-> ask[p].payload, outcome |-> Committed(n)]
           package == [key |-> ask[p].key, payload |-> ask[p].payload, approved |-> draft[p].approved,
                       relations |-> draft[p].relations, evidence |-> draft[p].evidence,
                       gaps |-> draft[p].gaps]
           audit == [package |-> n, version |-> draft[p].effective]
<1>1. /\ UNCHANGED <<history, ask, crashes>> /\ EndTransaction(p)
      /\ packages' = Append(packages, package) /\ audits' = Append(audits, audit)
      /\ operation' = [operation EXCEPT ![k] = row]
      /\ pc' = [pc EXCEPT ![p] = "return"] /\ pc[p] = "commit"
      /\ since' = [since EXCEPT ![p] = 0] /\ round' = [round EXCEPT ![p] = 0]
      /\ result' = [result EXCEPT ![p] = Committed(n)]
  BY DEF CommitPackage, Decided, Answered, Goto, Result
<1>2. k \in Key /\ ask[p].payload \in Payload /\ ask[p] \in Requests
  BY <1>1, AskLemma
<1>3. keyLock[k] = p /\ operation[k] = NoOne
  <2>1. Owns(p)
    BY <1>1 DEF Owns
  <2> QED BY <1>2, <2>1, ContextAssumption DEF IndInv, Locks
<1>4. DOMAIN operation = Key /\ operation'[k] = row /\ \A j \in Key : j # k => operation'[j] = operation[j]
  BY <1>1, <1>2 DEF IndInv, Rows
<1>5. /\ IsSeq(packages') /\ Len(packages') = n /\ packages'[n] = package /\ Len(packages) \in Nat
      /\ \A i \in 1..Len(packages) : packages'[i] = packages[i]
  <2>1. IsSeq(packages)
    BY DEF IndInv, Rows
  <2> HIDE DEF package
  <2> QED BY <1>1, <2>1, AppendLemma
<1>6. Contents' /\ RowsGrow
  BY <1>1, <1>3, <1>4, <1>5 DEF IndInv, Contents, RowsGrow
<1>7. draft[p].effective \in Version \union {Null}
  <2>1. snapshot[p].content \in since[p]..Len(history) /\ since[p] \in 1..Len(history)
    BY <1>1 DEF IndInv, Caller, Owns
  <2> DEFINE c == history[snapshot[p].content]
  <2>2. c \in Content
    <3>1. history \in Seq(Content) /\ snapshot[p].content \in 1..Len(history)
      BY <2>1 DEF IndInv, Contents
    <3> HIDE DEF Content
    <3> QED BY <3>1, ElementLemma
  <2>3. draft[p].effective = Effective(c, ask[p].payload)
    BY <1>1 DEF IndInv, Caller, Drafted, Collected
  <2>4. ask[p].payload.object \in Object /\ ask[p].payload.pinned \in Version \union {Null}
    BY <1>2, ContextAssumption
  <2> HIDE DEF c
  <2> QED BY <2>2, <2>3, <2>4 DEF Effective, Content
<1>8. /\ audits' \in Seq([package : Nat, version : Version \union {Null}]) /\ Len(audits') = n
      /\ audits'[n] = audit /\ \A i \in 1..Len(packages) : audits'[i] = audits[i]
  <2> DEFINE A == [package : Nat, version : Version \union {Null}]
  <2>1. audits \in Seq(A) /\ audit \in A /\ Len(audits) = Len(packages)
    BY <1>5, <1>7 DEF IndInv, Rows
  <2> HIDE DEF A, audit
  <2>2. audits' \in Seq(A)
    BY <1>1, <2>1
  <2>3. Len(audits') = n /\ audits'[n] = audit /\ \A i \in 1..Len(packages) : audits'[i] = audits[i]
    BY <1>1, <1>5, <2>1
  <2> QED BY <2>2, <2>3 DEF A
<1>9. row # NoOne
  <2>1. row \in [hash : Payload, outcome : Recorded]
    BY <1>2, <1>5 DEF Committed, Recorded
  <2> QED BY <2>1, ContextAssumption
<1>10. Rows'
  <2>1. \A i \in 1..Len(packages) : packages[i].key # k /\ packages[i].key \in Key
    BY <1>3 DEF IndInv, Rows
  <2>2. ASSUME NEW i \in 1..n
        PROVE  /\ packages'[i].key \in Key /\ packages'[i].payload \in Payload
               /\ audits'[i].package = i
               /\ operation'[packages'[i].key] = [hash |-> packages'[i].payload, outcome |-> Committed(i)]
               /\ operation'[packages'[i].key] # NoOne
    <3>1. CASE i = n
      BY <1>2, <1>4, <1>5, <1>8, <1>9, <3>1
    <3>2. CASE i # n
      <4>1. i \in 1..Len(packages)
        BY <1>5, <3>2
      <4>2. packages'[i] = packages[i] /\ audits'[i] = audits[i]
            /\ operation'[packages[i].key] = operation[packages[i].key]
        BY <1>4, <1>5, <1>8, <2>1, <4>1
      <4> QED BY <4>1, <4>2 DEF IndInv, Rows
    <3> QED BY <3>1, <3>2
  <2>3. ASSUME NEW j \in Key, operation'[j] # NoOne
        PROVE  /\ operation'[j].hash \in Payload
               /\ \/ operation'[j].outcome \in Rejections
                  \/ \E i \in 1..n : operation'[j].outcome = Committed(i) /\ packages'[i].key = j
    <3>1. CASE j = k
      <4>1. n \in 1..n /\ packages'[n].key = k
        BY <1>5
      <4> QED BY <1>2, <1>4, <3>1, <4>1
    <3>2. CASE j # k
      <4>1. operation'[j] = operation[j]
        BY <1>4, <3>2
      <4>2. \A i \in 1..Len(packages) : i \in 1..n /\ packages'[i] = packages[i]
        BY <1>5
      <4> QED BY <2>3, <4>1, <4>2 DEF IndInv, Rows
    <3> QED BY <3>1, <3>2
  <2>4. DOMAIN operation' = Key
    BY <1>1, <1>4
  <2> HIDE DEF n
  <2> QED BY <1>5, <1>8, <2>2, <2>3, <2>4 DEF Rows
<1>11. /\ pc'[p] = "return" /\ since'[p] = 0 /\ round'[p] = 0 /\ result'[p] = Committed(n)
       /\ \A x \in Proc : x # p => Same(x)
       /\ Functions'
  BY <1>1, EndLemma DEF Same, IndInv, Functions
<1>12. ~Owns(p)'
  BY <1>11 DEF Owns
<1>13. Locks'
  <2>1. \A j \in Key : operation'[j] = operation[j] \/ keyLock[j] = p
    BY <1>3, <1>4
  <2> QED BY <1>1, <1>11, <1>12, <2>1, ReleaseLemma
<1>14. Caller(p)'
  <2>1. snapshot'[p] = NoSnapshot /\ draft'[p] = Nothing
    BY <1>1, EndLemma
  <2>2. Committed(n) \in Results'
    BY <1>5 DEF Results, Committed
  <2> QED BY <1>1, <1>2, <1>6, <1>11, <2>1, <2>2, RestLemma
<1> QED BY <1>6, <1>10, <1>11, <1>13, <1>14, StepLemma

-------------------------------------------------------------------------------
\* The statements that read.

\* A statement that leaves in the draft what the snapshot has keeps the invariant.
LEMMA ReadLemma ==
    ASSUME IndInv, NEW p \in Proc, Owns(p), Reads,
           NEW d, DOMAIN d = DOMAIN Nothing,
           DOMAIN draft' = Proc, \A x \in Proc : draft'[x] = IF x = p THEN d ELSE draft[x],
           NEW l \in {"target", "pinned", "version", "relations", "dependencies", "evidence",
                      "commit", "reject"},
           Goto(p, l),
           Drafted(l, Visible(p), ask[p].payload, d),
           DOMAIN result' = Proc, \A x \in Proc : x # p => result'[x] = result[x],
           result'[p] \in Results,
           l = "reject" => /\ result'[p] \in Rejections
                           /\ result'[p][1] = OutcomeAt(Visible(p), ask[p].payload)
    PROVE  IndInv'
<1>1. UNCHANGED rows /\ UNCHANGED <<keyLock, snapshot, ask, since, round, crashes>>
  BY DEF Reads, request
<1>2. RowsGrow /\ Contents' /\ Rows'
  BY <1>1, NoGrowth
<1>3. /\ pc'[p] = l /\ draft'[p] = d
      /\ \A x \in Proc : x # p => Same(x)
      /\ Functions'
  BY <1>1 DEF Goto, Same, IndInv, Functions
<1>4. Owns(p)'
  BY <1>3 DEF Owns, Goto
<1>5. Locks'
  <2>1. \A x \in Proc : Owns(x)' <=> Owns(x)
    BY <1>3, <1>4 DEF Same, Owns
  <2> QED BY <1>1, <2>1 DEF IndInv, Locks, rows, Owns
<1>6. Caller(p)'
  <2>1. /\ ask[p] \in Requests /\ since[p] \in 1..Len(history) /\ round[p] = 1
        /\ snapshot[p] \in [content : 0..Len(history), keys : SUBSET Key]
        /\ snapshot[p].content \in since[p]..Len(history)
        /\ \A k \in snapshot[p].keys : operation[k] # NoOne
    BY DEF IndInv, Caller, Owns
  <2>2. Drafted(pc[p], history[snapshot[p].content], ask[p].payload, draft[p])'
    BY <1>1, <1>3 DEF Visible, rows
  <2>3. Results' = Results
    BY <1>1 DEF Results, rows
  <2>4. pc'[p] \notin {"idle", "begin", "insert", "replay", "return"}
    BY <1>3
  <2>5. pc'[p] = "reject" => /\ result'[p] \in Rejections
            /\ result'[p][1] = OutcomeAt(history[snapshot[p].content], ask[p].payload)
    BY <1>3 DEF Visible
  <2> QED BY <1>1, <1>3, <1>4, <2>1, <2>2, <2>3, <2>4, <2>5 DEF Caller, rows
<1> QED BY <1>2, <1>3, <1>5, <1>6, StepLemma

\* The same for the statements that decide nothing.
LEMMA QuietReadLemma ==
    ASSUME IndInv, NEW p \in Proc, Owns(p), Reads, UNCHANGED result,
           NEW d, Draft(p, d), DOMAIN d = DOMAIN Nothing,
           NEW l \in {"pinned", "version", "relations", "dependencies", "evidence", "commit"},
           Goto(p, l),
           Drafted(l, Visible(p), ask[p].payload, d)
    PROVE  IndInv'
<1>1. DOMAIN result = Proc /\ result[p] \in Results
  BY DEF IndInv, Functions, Caller
<1>2. DOMAIN draft' = Proc /\ \A x \in Proc : draft'[x] = IF x = p THEN d ELSE draft[x]
  BY DEF Draft, IndInv, Functions
<1> QED BY <1>1, <1>2, ReadLemma

\* The snapshot of a caller that reads is a content, and its draft what it has read of it.
LEMMA SnapshotLemma ==
    ASSUME IndInv, NEW p \in Proc, Owns(p)
    PROVE  /\ Visible(p) \in Content
           /\ ask[p].payload \in Payload
           /\ Drafted(pc[p], Visible(p), ask[p].payload, draft[p])
           /\ DOMAIN draft[p] = DOMAIN Nothing
<1>1. history \in Seq(Content) /\ snapshot[p].content \in 1..Len(history)
  <2>1. since[p] \in 1..Len(history) /\ snapshot[p].content \in since[p]..Len(history)
    BY DEF IndInv, Caller, Owns
  <2> QED BY <2>1 DEF IndInv, Contents
<1>2. Visible(p) \in Content
  <2> HIDE DEF Content
  <2> QED BY <1>1, ElementLemma DEF Visible
<1>3. pc[p] \notin {"idle", "return"}
  BY DEF Owns
<1> QED BY <1>2, <1>3, AskLemma DEF Visible, IndInv, Caller

\* Step 4: the pointer of the target.
LEMMA ReadTargetStep ==
    ASSUME IndInv, NEW p \in Proc, ReadTarget(p)
    PROVE  IndInv'
<1> DEFINE q == ask[p].payload
           c == Visible(p)
           pointer == c.pointer[q.object]
           d == [draft[p] EXCEPT !.target = pointer,
                                 !.effective = IF q.pinned = Null THEN pointer ELSE Null]
           l == IF q.pinned = Null THEN "version" ELSE "pinned"
<1>1. pc[p] = "target" /\ Draft(p, d) /\ Goto(p, l) /\ UNCHANGED result /\ Reads
  BY DEF ReadTarget
<1>2. Owns(p)
  BY <1>1 DEF Owns
<1>3. draft[p] = Nothing
  BY <1>1, <1>2, SnapshotLemma DEF Drafted
<1>4. DOMAIN d = DOMAIN Nothing
  BY <1>3 DEF Nothing
<1>5. Drafted(l, c, q, d)
  <2>1. /\ d.target = pointer /\ d.effective = (IF q.pinned = Null THEN pointer ELSE Null)
        /\ d.gaps = << >> /\ NoEntries(d)
    BY <1>3 DEF Nothing, NoEntries
  <2> HIDE DEF d
  <2>2. CASE q.pinned = Null
    <3>1. OutcomeAt(c, q) = "COMMITTED" /\ Effective(c, q) = pointer /\ PinGaps(c, q) = << >>
      BY <2>2 DEF OutcomeAt, Effective, PinGaps
    <3> QED BY <2>1, <2>2, <3>1 DEF Drafted
  <2>3. CASE q.pinned # Null
    BY <2>1, <2>3 DEF Drafted
  <2> QED BY <2>2, <2>3
<1>6. l \in {"pinned", "version", "relations", "dependencies", "evidence", "commit"}
  OBVIOUS
<1> HIDE DEF d, l
<1> QED BY <1>1, <1>2, <1>4, <1>5, <1>6, QuietReadLemma

\* A pin the snapshot rejects.
LEMMA RejectPinnedStep ==
    ASSUME IndInv, NEW p \in Proc, RejectPinned(p)
    PROVE  IndInv'
<1> DEFINE q == ask[p].payload
           c == Visible(p)
<1>1. pc[p] = "pinned" /\ Goto(p, "reject") /\ UNCHANGED draft /\ Reads
  BY DEF RejectPinned
<1>2. Owns(p)
  BY <1>1 DEF Owns
<1>3. q.pinned # Null /\ draft[p].target = c.pointer[q.object] /\ DOMAIN draft[p] = DOMAIN Nothing
  <2>1. Drafted("pinned", c, q, draft[p]) /\ DOMAIN draft[p] = DOMAIN Nothing
    BY <1>1, <1>2, SnapshotLemma
  <2> QED BY <2>1 DEF Drafted
<1>4. PICK outcome \in Rejections : Result(p, outcome) /\ outcome[1] = OutcomeAt(c, q)
  <2>1. CASE Foreign(p) /\ Result(p, <<"INVALID_OBJECT_VERSION", 0>>)
    <3>1. OutcomeAt(c, q) = "INVALID_OBJECT_VERSION"
      BY <1>3, <2>1 DEF Foreign, OutcomeAt
    <3> QED BY <2>1, <3>1 DEF Rejections
  <2>2. CASE /\ ~Foreign(p) /\ c.status[q.pinned] = "APPROVED_CONTENT"
             /\ Superseded(p)
             /\ Result(p, <<"NEWER_VERSION_AVAILABLE", 0>>)
    <3>1. OutcomeAt(c, q) = "NEWER_VERSION_AVAILABLE"
      BY <1>3, <2>2 DEF Foreign, Superseded, OutcomeAt
    <3> QED BY <2>2, <3>1 DEF Rejections
  <2> QED BY <2>1, <2>2 DEF RejectPinned
<1>5. /\ DOMAIN result' = Proc /\ \A x \in Proc : x # p => result'[x] = result[x]
      /\ result'[p] = outcome
  BY <1>4 DEF Result, IndInv, Functions
<1>6. outcome \in Results
  BY <1>4 DEF Results
<1>7. Drafted("reject", c, q, draft[p])
  BY DEF Drafted
<1>8. DOMAIN draft' = Proc /\ \A x \in Proc : draft'[x] = IF x = p THEN draft[p] ELSE draft[x]
  BY <1>1 DEF IndInv, Functions
<1> QED BY <1>1, <1>2, <1>3, <1>4, <1>5, <1>6, <1>7, <1>8, ReadLemma

\* A pin the snapshot accepts, or leaves a gap for.
LEMMA AcceptPinnedStep ==
    ASSUME IndInv, NEW p \in Proc, AcceptPinned(p)
    PROVE  IndInv'
<1> DEFINE q == ask[p].payload
           c == Visible(p)
<1>1. pc[p] = "pinned" /\ Goto(p, "version") /\ UNCHANGED result /\ Reads /\ ~Foreign(p)
  BY DEF AcceptPinned
<1>2. Owns(p)
  BY <1>1 DEF Owns
<1>3. /\ q.pinned # Null /\ draft[p].target = c.pointer[q.object] /\ draft[p].effective = Null
      /\ draft[p].gaps = << >> /\ NoEntries(draft[p]) /\ DOMAIN draft[p] = DOMAIN Nothing
  BY <1>1, <1>2, SnapshotLemma DEF Drafted
<1>4. CASE /\ c.status[q.pinned] # "APPROVED_CONTENT"
           /\ Draft(p, [draft[p] EXCEPT !.gaps = <<[gap |-> "APPROVAL_INSUFFICIENT", of |-> q.pinned]>>])
  <2> DEFINE d == [draft[p] EXCEPT !.gaps = <<[gap |-> "APPROVAL_INSUFFICIENT", of |-> q.pinned]>>]
  <2>1. Draft(p, d)
    BY <1>4
  <2>2. OutcomeAt(c, q) = "COMMITTED" /\ Effective(c, q) = Null /\ PinGaps(c, q) = <<PinGap(q)>>
    BY <1>1, <1>3, <1>4 DEF OutcomeAt, Foreign, Effective, PinGaps
  <2>3. d.effective = Null /\ d.gaps = <<PinGap(q)>> /\ NoEntries(d) /\ DOMAIN d = DOMAIN Nothing
    BY <1>3 DEF PinGap, Nothing, NoEntries
  <2> HIDE DEF d
  <2>4. Drafted("version", c, q, d)
    BY <2>2, <2>3 DEF Drafted
  <2> QED BY <1>1, <1>2, <2>1, <2>3, <2>4, QuietReadLemma
<1>5. CASE /\ c.status[q.pinned] = "APPROVED_CONTENT" /\ ~Superseded(p)
           /\ Draft(p, [draft[p] EXCEPT !.effective = q.pinned])
  <2> DEFINE d == [draft[p] EXCEPT !.effective = q.pinned]
  <2>1. Draft(p, d)
    BY <1>5
  <2>2. OutcomeAt(c, q) = "COMMITTED" /\ Effective(c, q) = q.pinned /\ PinGaps(c, q) = << >>
    BY <1>1, <1>3, <1>5 DEF OutcomeAt, Foreign, Superseded, Effective, PinGaps
  <2>3. d.effective = q.pinned /\ d.gaps = << >> /\ NoEntries(d) /\ DOMAIN d = DOMAIN Nothing
    BY <1>3 DEF Nothing, NoEntries
  <2> HIDE DEF d
  <2>4. Drafted("version", c, q, d)
    BY <2>2, <2>3 DEF Drafted
  <2> QED BY <1>1, <1>2, <2>1, <2>3, <2>4, QuietReadLemma
<1> QED BY <1>4, <1>5 DEF AcceptPinned

\* Sequences one element longer, as sets.
LEMMA EntriesLemma ==
    ASSUME NEW c, NEW R, NEW r
    PROVE  /\ Entries(c, R \union {r}) =
                 Entries(c, R) \union (IF r.satisfied THEN {Entry(c, c.pointer[r.to])} ELSE {})
           /\ RelationGaps(R \union {r}) = RelationGaps(R) \union
                 (IF r.satisfied THEN {} ELSE {[gap |-> "BLOCKED_BY_DEPENDENCY", of |-> r.id]})
           /\ EvidenceGaps(R \union {r}) = EvidenceGaps(R) \union
                 (IF r.source = Null THEN {[gap |-> "EVIDENCE_MISSING", of |-> r.class]} ELSE {})
           /\ Entries(c, {}) = {} /\ RelationGaps({}) = {} /\ EvidenceGaps({}) = {}
<1>1. Entries(c, R \union {r}) =
         Entries(c, R) \union (IF r.satisfied THEN {Entry(c, c.pointer[r.to])} ELSE {})
  BY DEF Entries
<1>2. RelationGaps(R \union {r}) = RelationGaps(R) \union
         (IF r.satisfied THEN {} ELSE {[gap |-> "BLOCKED_BY_DEPENDENCY", of |-> r.id]})
  BY DEF RelationGaps
<1>3. EvidenceGaps(R \union {r}) = EvidenceGaps(R) \union
         (IF r.source = Null THEN {[gap |-> "EVIDENCE_MISSING", of |-> r.class]} ELSE {})
  BY DEF EvidenceGaps
<1>4. Entries(c, {}) = {} /\ RelationGaps({}) = {} /\ EvidenceGaps({}) = {}
  BY DEF Entries, RelationGaps, EvidenceGaps
<1> QED BY <1>1, <1>2, <1>3, <1>4

\* Step 5: the first entry, or the first gap.
LEMMA ReadVersionStep ==
    ASSUME IndInv, NEW p \in Proc, ReadVersion(p)
    PROVE  IndInv'
<1> DEFINE q == ask[p].payload
           c == Visible(p)
           e == draft[p].effective
           d == IF e # Null THEN [draft[p] EXCEPT !.approved = <<Entry(c, e)>>]
                ELSE IF draft[p].gaps = << >>
                THEN [draft[p] EXCEPT !.gaps = <<[gap |-> "NO_APPROVED_VERSION", of |-> q.object]>>]
                ELSE draft[p]
<1>1. pc[p] = "version" /\ Draft(p, d) /\ Goto(p, "relations") /\ UNCHANGED result /\ Reads
  BY DEF ReadVersion
<1>2. Owns(p)
  BY <1>1 DEF Owns
<1>3. /\ OutcomeAt(c, q) = "COMMITTED"
      /\ e = Effective(c, q) /\ draft[p].gaps = PinGaps(c, q) /\ NoEntries(draft[p])
      /\ DOMAIN draft[p] = DOMAIN Nothing
  BY <1>1, <1>2, SnapshotLemma DEF Drafted
<1>4. /\ e = Effective(c, q) /\ draft[p].gaps = PinGaps(c, q) /\ draft[p].approved = << >>
      /\ draft[p].resolved = << >> /\ draft[p].relations = << >> /\ draft[p].evidence = << >>
  BY <1>3 DEF NoEntries
<1>5. /\ d.effective = e /\ d.resolved = << >> /\ d.relations = << >> /\ d.evidence = << >>
      /\ DOMAIN d = DOMAIN Nothing
      /\ d.approved = IF e # Null THEN <<Entry(c, e)>> ELSE << >>
      /\ d.gaps = IF e = Null /\ draft[p].gaps = << >> THEN <<PointerGap(q)>> ELSE draft[p].gaps
  BY <1>3, <1>4 DEF Nothing, PointerGap
<1> HIDE DEF d
<1>6. IsSeq(d.approved) /\ Range(d.approved) = FirstEntries(c, q)
  <2>1. CASE e # Null
    BY <1>4, <1>5, <2>1, SingletonLemma DEF FirstEntries
  <2>2. CASE e = Null
    BY <1>4, <1>5, <2>2, EmptyLemma DEF FirstEntries
  <2> QED BY <2>1, <2>2
<1>7. IsSeq(d.gaps) /\ Range(d.gaps) = FirstGaps(c, q)
  <2>1. CASE e # Null
    BY <1>4, <1>5, <2>1, EmptyLemma DEF FirstGaps, PinGaps
  <2>2. CASE e = Null /\ q.pinned # Null
    <3>1. draft[p].gaps = <<PinGap(q)>> /\ draft[p].gaps # << >>
      BY <1>4, <2>2, SingletonLemma DEF PinGaps
    <3> QED BY <1>4, <1>5, <2>2, <3>1, SingletonLemma DEF FirstGaps
  <2>3. CASE e = Null /\ q.pinned = Null
    <3>1. draft[p].gaps = << >>
      BY <1>4, <2>3 DEF PinGaps
    <3> QED BY <1>4, <1>5, <2>3, <3>1, SingletonLemma DEF FirstGaps
  <2> QED BY <2>1, <2>2, <2>3
<1>8. Collected(c, q, d)
  <2>1. /\ IsSeq(d.resolved) /\ IsSeq(d.relations) /\ IsSeq(d.evidence)
        /\ Len(d.resolved) = 0 /\ Len(d.relations) = 0 /\ Len(d.evidence) = 0
        /\ Range(d.relations) = {} /\ Range(d.evidence) = {}
    BY <1>5, EmptyLemma
  <2>2. Len(RequiredRelations) \in Nat /\ Len(RequiredEvidence) \in Nat
    BY ContractLemma
  <2>3. Range(d.approved) = FirstEntries(c, q) \union Entries(c, Range(d.relations))
    BY <1>6, <2>1, EntriesLemma
  <2>4. Range(d.gaps) = FirstGaps(c, q) \union RelationGaps(Range(d.relations))
                          \union EvidenceGaps(Range(d.evidence))
    BY <1>7, <2>1, EntriesLemma
  <2> QED BY <1>3, <1>4, <1>5, <1>6, <1>7, <2>1, <2>2, <2>3, <2>4 DEF Collected
<1>9. Drafted("relations", c, q, d)
  BY <1>5, <1>8, EmptyLemma, ContractLemma DEF Drafted
<1> QED BY <1>1, <1>2, <1>5, <1>9, QuietReadLemma

\* One more resolution.
LEMMA ResolveRelationStep ==
    ASSUME IndInv, NEW p \in Proc, ResolveRelation(p)
    PROVE  IndInv'
<1> DEFINE q == ask[p].payload
           c == Visible(p)
           i == Len(draft[p].resolved) + 1
           r == Resolution(c, q.object, RequiredRelations[i])
           d == [draft[p] EXCEPT !.resolved = Append(@, r)]
           l == IF i = Len(RequiredRelations) THEN "dependencies" ELSE "relations"
<1>1. pc[p] = "relations" /\ Draft(p, d) /\ Goto(p, l) /\ UNCHANGED result /\ Reads
  BY DEF ResolveRelation
<1>2. Owns(p)
  BY <1>1 DEF Owns
<1>3. /\ Collected(c, q, draft[p]) /\ DOMAIN draft[p] = DOMAIN Nothing
      /\ Len(draft[p].resolved) < Len(RequiredRelations)
      /\ Len(draft[p].relations) = 0 /\ Len(draft[p].evidence) = 0
  BY <1>1, <1>2, SnapshotLemma DEF Drafted
<1>4. /\ d.resolved = Append(draft[p].resolved, r) /\ DOMAIN d = DOMAIN Nothing
      /\ d.effective = draft[p].effective /\ d.approved = draft[p].approved
      /\ d.relations = draft[p].relations /\ d.evidence = draft[p].evidence
      /\ d.gaps = draft[p].gaps
  BY <1>3 DEF Nothing
<1> HIDE DEF d
<1>5. /\ IsSeq(d.resolved) /\ Len(d.resolved) = i /\ i \in Nat
      /\ \A j \in 1..i : d.resolved[j] = Resolution(c, q.object, RequiredRelations[j])
  <2>1. /\ IsSeq(draft[p].resolved)
        /\ \A j \in 1..Len(draft[p].resolved) :
              draft[p].resolved[j] = Resolution(c, q.object, RequiredRelations[j])
    BY <1>3 DEF Collected
  <2> DEFINE s == draft[p].resolved
  <2>2. /\ IsSeq(Append(s, r)) /\ Len(Append(s, r)) = Len(s) + 1 /\ Len(s) \in Nat
        /\ \A j \in 1..Len(s) : Append(s, r)[j] = s[j]
        /\ Append(s, r)[Len(s) + 1] = r
    BY <2>1, AppendLemma
  <2>3. \A j \in 1..i : j = i \/ j \in 1..Len(s)
    BY <2>2
  <2> QED BY <1>4, <2>1, <2>2, <2>3
<1>6. Collected(c, q, d) /\ Len(d.relations) = 0 /\ Len(d.evidence) = 0 /\ i <= Len(RequiredRelations)
  BY <1>3, <1>4, <1>5, ContractLemma DEF Collected
<1>7. Drafted(l, c, q, d)
  <2>1. CASE i = Len(RequiredRelations)
    <3>1. Drafted("dependencies", c, q, d)
      BY <1>5, <1>6, <2>1, ContractLemma DEF Drafted
    <3> QED BY <2>1, <3>1
  <2>2. CASE i # Len(RequiredRelations)
    <3>1. Len(d.resolved) < Len(RequiredRelations)
      <4>1. Len(d.resolved) = i /\ i \in Nat
        BY <1>5
      <4>2. Len(RequiredRelations) \in Nat /\ i <= Len(RequiredRelations)
        BY <1>6, ContractLemma
      <4> HIDE DEF i
      <4> QED BY <2>2, <4>1, <4>2
    <3>2. Drafted("relations", c, q, d)
      BY <1>6, <3>1 DEF Drafted
    <3> QED BY <2>2, <3>2
  <2> QED BY <2>1, <2>2
<1>8. l \in {"pinned", "version", "relations", "dependencies", "evidence", "commit"}
  OBVIOUS
<1> HIDE DEF l
<1> QED BY <1>1, <1>2, <1>4, <1>7, <1>8, QuietReadLemma

\* One more relation: an entry or a gap.
LEMMA NoteDependencyStep ==
    ASSUME IndInv, NEW p \in Proc, NoteDependency(p)
    PROVE  IndInv'
<1> DEFINE q == ask[p].payload
           c == Visible(p)
           i == Len(draft[p].relations) + 1
           r == draft[p].resolved[i]
           entry == Entry(c, c.pointer[r.to])
           gap == [gap |-> "BLOCKED_BY_DEPENDENCY", of |-> r.id]
           d == [draft[p] EXCEPT !.relations = Append(@, r),
                                 !.gaps = IF r.satisfied THEN @ ELSE Append(@, gap),
                                 !.approved = IF r.satisfied THEN Append(@, entry) ELSE @]
           l == IF i = Len(draft[p].resolved) THEN "evidence" ELSE "dependencies"
<1>1. pc[p] = "dependencies" /\ Draft(p, d) /\ Goto(p, l) /\ UNCHANGED result /\ Reads
  BY DEF NoteDependency
<1>2. Owns(p)
  BY <1>1 DEF Owns
<1>3. /\ Collected(c, q, draft[p]) /\ DOMAIN draft[p] = DOMAIN Nothing
      /\ Len(draft[p].resolved) = Len(RequiredRelations)
      /\ Len(draft[p].relations) < Len(draft[p].resolved) /\ Len(draft[p].evidence) = 0
  BY <1>1, <1>2, SnapshotLemma DEF Drafted
<1>4. /\ d.relations = Append(draft[p].relations, r) /\ DOMAIN d = DOMAIN Nothing
      /\ d.effective = draft[p].effective /\ d.resolved = draft[p].resolved
      /\ d.evidence = draft[p].evidence
      /\ d.gaps = (IF r.satisfied THEN draft[p].gaps ELSE Append(draft[p].gaps, gap))
      /\ d.approved = (IF r.satisfied THEN Append(draft[p].approved, entry) ELSE draft[p].approved)
  <2> HIDE DEF r, gap, entry
  <2> QED BY <1>3 DEF Nothing
<1> HIDE DEF d
<1>5. /\ IsSeq(d.relations) /\ Len(d.relations) = i /\ i \in Nat
      /\ \A j \in 1..i : d.relations[j] = draft[p].resolved[j]
      /\ Range(d.relations) = Range(draft[p].relations) \union {r}
  <2> DEFINE s == draft[p].relations
  <2>1. IsSeq(s) /\ \A j \in 1..Len(s) : s[j] = draft[p].resolved[j]
    BY <1>3 DEF Collected
  <2>2. /\ IsSeq(Append(s, r)) /\ Len(Append(s, r)) = Len(s) + 1 /\ Len(s) \in Nat
        /\ \A j \in 1..Len(s) : Append(s, r)[j] = s[j]
        /\ Append(s, r)[Len(s) + 1] = r
        /\ Range(Append(s, r)) = Range(s) \union {r}
    BY <2>1, AppendLemma
  <2>3. ASSUME NEW j \in 1..i PROVE d.relations[j] = draft[p].resolved[j]
    <3>1. CASE j = i
      BY <1>4, <2>2, <3>1
    <3>2. CASE j # i
      <4>1. j \in 1..Len(s)
        BY <2>2, <3>2
      <4> QED BY <1>4, <2>1, <2>2, <4>1
    <3> QED BY <3>1, <3>2
  <2> HIDE DEF r
  <2>4. IsSeq(d.relations) /\ Len(d.relations) = i /\ i \in Nat
        /\ Range(d.relations) = Range(draft[p].relations) \union {r}
    BY <1>4, <2>2
  <2> QED BY <2>3, <2>4
<1>6. /\ IsSeq(d.approved)
      /\ Range(d.approved) = Range(draft[p].approved) \union (IF r.satisfied THEN {entry} ELSE {})
  <2>1. IsSeq(draft[p].approved)
    BY <1>3 DEF Collected
  <2> HIDE DEF entry, r
  <2>2. IsSeq(Append(draft[p].approved, entry))
        /\ Range(Append(draft[p].approved, entry)) = Range(draft[p].approved) \union {entry}
    BY <2>1, AppendLemma
  <2> QED BY <1>4, <2>1, <2>2
<1>7. /\ IsSeq(d.gaps)
      /\ Range(d.gaps) = Range(draft[p].gaps) \union (IF r.satisfied THEN {} ELSE {gap})
  <2>1. IsSeq(draft[p].gaps)
    BY <1>3 DEF Collected
  <2> HIDE DEF gap, r
  <2>2. IsSeq(Append(draft[p].gaps, gap))
        /\ Range(Append(draft[p].gaps, gap)) = Range(draft[p].gaps) \union {gap}
    BY <2>1, AppendLemma
  <2> QED BY <1>4, <2>1, <2>2
<1>8. /\ Range(d.approved) = FirstEntries(c, q) \union Entries(c, Range(d.relations))
      /\ Range(d.gaps) = FirstGaps(c, q) \union RelationGaps(Range(d.relations))
                           \union EvidenceGaps(Range(d.evidence))
  <2> HIDE DEF i, c, q
  <2> DEFINE R == Range(draft[p].relations)
  <2>1. /\ Range(draft[p].approved) = FirstEntries(c, q) \union Entries(c, R)
        /\ Range(draft[p].gaps) = FirstGaps(c, q) \union RelationGaps(R)
                                    \union EvidenceGaps(Range(draft[p].evidence))
    BY <1>3 DEF Collected
  <2>2. /\ Entries(c, R \union {r}) = Entries(c, R) \union (IF r.satisfied THEN {entry} ELSE {})
        /\ RelationGaps(R \union {r}) = RelationGaps(R) \union (IF r.satisfied THEN {} ELSE {gap})
    <3> HIDE DEF r, R
    <3>1. Entries(c, R \union {r}) = Entries(c, R) \union (IF r.satisfied THEN {entry} ELSE {})
      BY DEF Entries
    <3>2. RelationGaps(R \union {r}) = RelationGaps(R) \union (IF r.satisfied THEN {} ELSE {gap})
      BY DEF RelationGaps
    <3> QED BY <3>1, <3>2
  <2>3. Range(d.relations) = R \union {r} /\ d.evidence = draft[p].evidence
    BY <1>4, <1>5
  <2> HIDE DEF entry, gap, r, R
  <2> QED BY <1>6, <1>7, <2>1, <2>2, <2>3
<1>9. i <= Len(draft[p].resolved) /\ Len(draft[p].resolved) \in Nat
  BY <1>3, <1>5, ContractLemma
<1>10. Collected(c, q, d) /\ Len(d.evidence) = 0 /\ Len(d.relations) = i
       /\ Len(d.resolved) = Len(RequiredRelations) /\ d.resolved = draft[p].resolved
  <2> HIDE DEF i, c, q
  <2> QED BY <1>3, <1>4, <1>5, <1>6, <1>7, <1>8, <1>9 DEF Collected
<1>11. Drafted(l, c, q, d)
  <2> HIDE DEF i, c, q
  <2>1. CASE i = Len(draft[p].resolved)
    <3>1. Drafted("evidence", c, q, d)
      BY <1>10, <2>1, ContractLemma DEF Drafted
    <3> QED BY <2>1, <3>1
  <2>2. CASE i # Len(draft[p].resolved)
    <3>1. Len(d.relations) < Len(d.resolved)
      BY <1>5, <1>9, <1>10, <2>2
    <3>2. Drafted("dependencies", c, q, d)
      BY <1>10, <3>1 DEF Drafted
    <3> QED BY <2>2, <3>2
  <2> QED BY <2>1, <2>2
<1>12. l \in {"pinned", "version", "relations", "dependencies", "evidence", "commit"}
  OBVIOUS
<1> HIDE DEF l
<1> QED BY <1>1, <1>2, <1>4, <1>11, <1>12, QuietReadLemma

\* One more class of evidence, and its gap if there is none.
LEMMA RetrieveEvidenceStep ==
    ASSUME IndInv, NEW p \in Proc, RetrieveEvidence(p)
    PROVE  IndInv'
<1> DEFINE q == ask[p].payload
           c == Visible(p)
           i == Len(draft[p].evidence) + 1
           e == Evidence(c, q.object, RequiredEvidence[i])
           gap == [gap |-> "EVIDENCE_MISSING", of |-> e.class]
           d == [draft[p] EXCEPT !.evidence = Append(@, e),
                                 !.gaps = IF e.source # Null THEN @ ELSE Append(@, gap)]
           l == IF i = Len(RequiredEvidence) THEN "commit" ELSE "evidence"
<1>1. pc[p] = "evidence" /\ Draft(p, d) /\ Goto(p, l) /\ UNCHANGED result /\ Reads
  BY DEF RetrieveEvidence
<1>2. Owns(p)
  BY <1>1 DEF Owns
<1>3. /\ Collected(c, q, draft[p]) /\ DOMAIN draft[p] = DOMAIN Nothing
      /\ Len(draft[p].resolved) = Len(RequiredRelations)
      /\ Len(draft[p].relations) = Len(draft[p].resolved)
      /\ Len(draft[p].evidence) < Len(RequiredEvidence)
  BY <1>1, <1>2, SnapshotLemma DEF Drafted
<1>4. /\ d.evidence = Append(draft[p].evidence, e) /\ DOMAIN d = DOMAIN Nothing
      /\ d.effective = draft[p].effective /\ d.resolved = draft[p].resolved
      /\ d.relations = draft[p].relations /\ d.approved = draft[p].approved
      /\ d.gaps = (IF e.source # Null THEN draft[p].gaps ELSE Append(draft[p].gaps, gap))
  <2> HIDE DEF e, gap
  <2> QED BY <1>3 DEF Nothing
<1> HIDE DEF d
<1>5. /\ IsSeq(d.evidence) /\ Len(d.evidence) = i /\ i \in Nat
      /\ \A j \in 1..i : d.evidence[j] = Evidence(c, q.object, RequiredEvidence[j])
      /\ Range(d.evidence) = Range(draft[p].evidence) \union {e}
  <2> DEFINE s == draft[p].evidence
  <2>1. IsSeq(s) /\ \A j \in 1..Len(s) : s[j] = Evidence(c, q.object, RequiredEvidence[j])
    BY <1>3 DEF Collected
  <2>2. /\ IsSeq(Append(s, e)) /\ Len(Append(s, e)) = Len(s) + 1 /\ Len(s) \in Nat
        /\ \A j \in 1..Len(s) : Append(s, e)[j] = s[j]
        /\ Append(s, e)[Len(s) + 1] = e
        /\ Range(Append(s, e)) = Range(s) \union {e}
    BY <2>1, AppendLemma
  <2>3. \A j \in 1..i : j = i \/ j \in 1..Len(s)
    BY <2>2
  <2>4. d.evidence = Append(s, e) /\ i = Len(s) + 1
    BY <1>4
  <2>5. \A j \in 1..i : d.evidence[j] = Evidence(c, q.object, RequiredEvidence[j])
    BY <2>1, <2>2, <2>3, <2>4
  <2> QED BY <2>2, <2>4, <2>5
<1>6. /\ IsSeq(d.gaps)
      /\ Range(d.gaps) = Range(draft[p].gaps) \union (IF e.source = Null THEN {gap} ELSE {})
  <2>1. IsSeq(draft[p].gaps)
    BY <1>3 DEF Collected
  <2> HIDE DEF gap, e
  <2>2. IsSeq(Append(draft[p].gaps, gap))
        /\ Range(Append(draft[p].gaps, gap)) = Range(draft[p].gaps) \union {gap}
    BY <2>1, AppendLemma
  <2> QED BY <1>4, <2>1, <2>2
<1>7. /\ IsSeq(d.approved) /\ Range(d.approved) = FirstEntries(c, q) \union Entries(c, Range(d.relations))
      /\ Range(d.gaps) = FirstGaps(c, q) \union RelationGaps(Range(d.relations))
                           \union EvidenceGaps(Range(d.evidence))
  <2> HIDE DEF i, c, q
  <2> DEFINE R == Range(draft[p].evidence)
  <2>1. /\ Range(draft[p].approved) = FirstEntries(c, q) \union Entries(c, Range(draft[p].relations))
        /\ Range(draft[p].gaps) = FirstGaps(c, q) \union RelationGaps(Range(draft[p].relations))
                                    \union EvidenceGaps(R)
        /\ IsSeq(draft[p].approved)
    BY <1>3 DEF Collected
  <2>2. EvidenceGaps(R \union {e}) = EvidenceGaps(R) \union (IF e.source = Null THEN {gap} ELSE {})
    BY EntriesLemma
  <2>3. Range(d.evidence) = R \union {e}
    BY <1>4, <1>5
  <2> HIDE DEF gap, e, R
  <2> QED BY <1>4, <1>6, <2>1, <2>2, <2>3
<1>8. i <= Len(RequiredEvidence) /\ Len(RequiredEvidence) \in Nat
  BY <1>3, <1>5, ContractLemma
<1>9. /\ Collected(c, q, d) /\ Len(d.evidence) = i /\ Len(d.relations) = Len(d.resolved)
      /\ Len(d.resolved) = Len(RequiredRelations)
  <2> HIDE DEF i, c, q
  <2> QED BY <1>3, <1>4, <1>5, <1>6, <1>7, <1>8 DEF Collected
<1>10. Drafted(l, c, q, d)
  <2> HIDE DEF i, c, q
  <2>1. CASE i = Len(RequiredEvidence)
    <3>1. Drafted("commit", c, q, d)
      BY <1>9, <2>1 DEF Drafted
    <3> QED BY <2>1, <3>1
  <2>2. CASE i # Len(RequiredEvidence)
    <3>1. Len(d.evidence) < Len(RequiredEvidence)
      BY <1>5, <1>8, <1>9, <2>2
    <3>2. Drafted("evidence", c, q, d)
      BY <1>9, <3>1 DEF Drafted
    <3> QED BY <2>2, <3>2
  <2> QED BY <2>1, <2>2
<1>11. l \in {"pinned", "version", "relations", "dependencies", "evidence", "commit"}
  OBVIOUS
<1> HIDE DEF l
<1> QED BY <1>1, <1>2, <1>4, <1>10, <1>11, QuietReadLemma

-------------------------------------------------------------------------------
\* The invariant of the specification.

\* Nothing happens.
LEMMA StutterStep == IndInv /\ UNCHANGED vars => IndInv'
<1> SUFFICES ASSUME IndInv, UNCHANGED vars PROVE IndInv'
  OBVIOUS
<1>1. /\ UNCHANGED rows /\ UNCHANGED <<keyLock, snapshot, pc, ask, since, round, draft, result, crashes>>
  BY DEF vars, request
<1>2. RowsGrow /\ Contents' /\ Rows'
  BY <1>1, NoGrowth
<1>3. \A x \in Proc : Same(x)
  BY <1>1 DEF Same
<1>4. Locks'
  BY <1>1 DEF IndInv, Locks, rows, Owns
<1>5. Functions'
  BY <1>1 DEF IndInv, Functions
<1> QED BY <1>2, <1>3, <1>4, <1>5, CallerFrame DEF IndInv

\* The invariant is inductive.
LEMMA NextInv == IndInv /\ [Next]_vars => IndInv'
<1> SUFFICES ASSUME IndInv, [Next]_vars PROVE IndInv'
  OBVIOUS
<1>1. CASE Environment
  BY <1>1, EnvironmentStep
<1>2. ASSUME NEW p \in Proc, Request(p) \/ RequestInVain(p) PROVE IndInv'
  BY <1>2, RequestStep
<1>3. ASSUME NEW p \in Proc, Insert(p) PROVE IndInv'
  BY <1>3, WinReservationStep, FindReservationStep, SerializationFailureStep DEF Insert
<1>4. ASSUME NEW p \in Proc, Read(p) PROVE IndInv'
  BY <1>4, ReadTargetStep, RejectPinnedStep, AcceptPinnedStep, ReadVersionStep, ResolveRelationStep,
     NoteDependencyStep, RetrieveEvidenceStep DEF Read
<1>5. ASSUME NEW p \in Proc, Step(p) PROVE IndInv'
  BY <1>3, <1>4, <1>5, TakeSnapshotStep, ReplayStep, CommitPackageStep, FailToInsertStep, RejectStep,
     ReceiveStep DEF Step
<1>6. ASSUME NEW p \in Proc, Crash(p) PROVE IndInv'
  BY <1>6, CrashStep
<1>7. CASE UNCHANGED vars
  BY <1>7, StutterStep
<1> QED BY <1>1, <1>2, <1>5, <1>6, <1>7 DEF Next

\* The invariant holds.
LEMMA Invariance == Spec => []IndInv
BY InitInv, NextInv, PTL DEF Spec

\* Types, for any number of callers, keys and changes.
THEOREM ContextTypes == Spec => []TypeOK
BY Invariance, TypesFollow, PTL

\* The loop of assemble_context never needs a third round, so its RuntimeError is never
\* raised, however many callers ask with the same key and whoever of them dies.
THEOREM ContextRounds == Spec => []TwoRoundsSuffice
<1>1. IndInv => TwoRoundsSuffice
  BY DEF IndInv, Caller, TwoRoundsSuffice
<1> QED BY <1>1, Invariance, PTL

\* The packages, the audit events and the decided reservations name each other, one to one.
THEOREM ContextOncePerKey == Spec => []OnePackagePerKey
<1>1. ASSUME IndInv PROVE OnePackagePerKey
  <2>1. /\ DOMAIN packages = 1..Len(packages) /\ DOMAIN audits = 1..Len(packages)
        /\ Len(packages) \in Nat
    BY <1>1 DEF IndInv, Rows, IsSeq
  <2>2. \A i \in DOMAIN packages :
          operation[packages[i].key] = [hash |-> packages[i].payload, outcome |-> Committed(i)]
    BY <1>1, <2>1 DEF IndInv, Rows
  <2>3. ASSUME NEW k \in Key, operation[k] # NoOne, operation[k].outcome \notin Rejections
        PROVE  packages[operation[k].outcome[2]].key = k
    <3>1. PICK i \in 1..Len(packages) : operation[k].outcome = Committed(i) /\ packages[i].key = k
      BY <1>1, <2>3 DEF IndInv, Rows
    <3> QED BY <3>1 DEF Committed
  <2>4. ASSUME NEW i \in DOMAIN packages
        PROVE  Cardinality({j \in DOMAIN audits : audits[j].package = i}) = 1
    <3>0. \A j \in DOMAIN audits : audits[j].package = j
      BY <1>1, <2>1 DEF IndInv, Rows
    <3>1. {j \in DOMAIN audits : audits[j].package = i} = {i}
      BY <2>1, <3>0
    <3> QED BY <3>1, FS_Singleton
  <2> QED BY <2>2, <2>3, <2>4 DEF OnePackagePerKey
<1> QED BY <1>1, Invariance, PTL

-------------------------------------------------------------------------------
\* One moment.

\* What has been collected when a package is to be committed is, as sets, what the snapshot
\* says of the request.
LEMMA CollectedLemma ==
    ASSUME IndInv, NEW p \in Proc, pc[p] = "commit", NEW package,
           package.approved = draft[p].approved, package.relations = draft[p].relations,
           package.evidence = draft[p].evidence, package.gaps = draft[p].gaps
    PROVE  /\ OutcomeAt(Visible(p), ask[p].payload) = "COMMITTED"
           /\ Canonical(package) = PackageAt(Visible(p), ask[p].payload)
<1> DEFINE q == ask[p].payload
           c == Visible(p)
           d == draft[p]
           resolutions == {Resolution(c, q.object, r) : r \in Range(RequiredRelations)}
           satisfied == {r \in resolutions : r.satisfied}
           evidence == {Evidence(c, q.object, r) : r \in Range(RequiredEvidence)}
           effective == IF q.pinned = Null THEN c.pointer[q.object]
                        ELSE IF c.status[q.pinned] = "APPROVED_CONTENT" THEN q.pinned ELSE Null
<1>1. Owns(p)
  BY DEF Owns
<1>2. /\ Collected(c, q, d) /\ Len(d.resolved) = Len(RequiredRelations)
      /\ Len(d.relations) = Len(d.resolved) /\ Len(d.evidence) = Len(RequiredEvidence)
  BY <1>1, SnapshotLemma DEF Drafted
<1>3. Range(d.relations) = resolutions
  <2>1. DOMAIN d.relations = 1..Len(RequiredRelations) /\ DOMAIN RequiredRelations = 1..Len(RequiredRelations)
    BY <1>2, ContractLemma DEF Collected, IsSeq
  <2>2. \A i \in 1..Len(RequiredRelations) :
           d.relations[i] = Resolution(c, q.object, RequiredRelations[i])
    BY <1>2 DEF Collected
  <2> HIDE DEF c, q, d
  <2> QED BY <2>1, <2>2 DEF Range
<1>4. Range(d.evidence) = evidence
  <2>1. DOMAIN d.evidence = 1..Len(RequiredEvidence) /\ DOMAIN RequiredEvidence = 1..Len(RequiredEvidence)
    BY <1>2, ContractLemma DEF Collected, IsSeq
  <2>2. \A i \in 1..Len(RequiredEvidence) :
           d.evidence[i] = Evidence(c, q.object, RequiredEvidence[i])
    BY <1>2 DEF Collected
  <2> HIDE DEF c, q, d
  <2> QED BY <2>1, <2>2 DEF Range
<1>5. effective = Effective(c, q)
  BY DEF Effective
<1>6. Range(d.approved) = {Entry(c, v) : v \in ({effective} \ {Null}) \union {c.pointer[r.to] : r \in satisfied}}
  <2>1. Range(d.approved) = FirstEntries(c, q) \union Entries(c, resolutions)
    BY <1>2, <1>3 DEF Collected
  <2> HIDE DEF c, q, d, resolutions, effective
  <2>2. Entries(c, resolutions) = {Entry(c, v) : v \in {c.pointer[r.to] : r \in satisfied}}
    BY DEF Entries
  <2>3. FirstEntries(c, q) = {Entry(c, v) : v \in {effective} \ {Null}}
    BY <1>5 DEF FirstEntries
  <2> QED BY <2>1, <2>2, <2>3
<1>7. Range(d.gaps) =
         {[gap |-> "APPROVAL_INSUFFICIENT", of |-> v] : v \in {q.pinned} \ {effective, Null}}
         \union (IF q.pinned = Null /\ effective = Null
                 THEN {[gap |-> "NO_APPROVED_VERSION", of |-> q.object]} ELSE {})
         \union {[gap |-> "BLOCKED_BY_DEPENDENCY", of |-> r.id] : r \in resolutions \ satisfied}
         \union {[gap |-> "EVIDENCE_MISSING", of |-> f.class] : f \in {x \in evidence : x.source = Null}}
  <2>1. Range(d.gaps) = FirstGaps(c, q) \union RelationGaps(resolutions) \union EvidenceGaps(evidence)
    BY <1>2, <1>3, <1>4 DEF Collected
  <2>2. q.pinned # Null => effective \in {q.pinned, Null}
    OBVIOUS
  <2> HIDE DEF c, q, d, resolutions, effective, evidence
  <2>3. RelationGaps(resolutions) =
           {[gap |-> "BLOCKED_BY_DEPENDENCY", of |-> r.id] : r \in resolutions \ satisfied}
    BY DEF RelationGaps
  <2>4. EvidenceGaps(evidence) =
           {[gap |-> "EVIDENCE_MISSING", of |-> f.class] : f \in {x \in evidence : x.source = Null}}
    BY DEF EvidenceGaps
  <2>5. FirstGaps(c, q) =
           {[gap |-> "APPROVAL_INSUFFICIENT", of |-> v] : v \in {q.pinned} \ {effective, Null}}
           \union (IF q.pinned = Null /\ effective = Null
                   THEN {[gap |-> "NO_APPROVED_VERSION", of |-> q.object]} ELSE {})
    <3>1. CASE effective # Null
      <4>1. {q.pinned} \ {effective, Null} = {}
        BY <2>2, <3>1
      <4> QED BY <1>5, <3>1, <4>1 DEF FirstGaps
    <3>2. CASE effective = Null /\ q.pinned # Null
      <4>1. {q.pinned} \ {effective, Null} = {q.pinned}
        BY <3>2
      <4> QED BY <1>5, <3>2, <4>1 DEF FirstGaps, PinGap
    <3>3. CASE effective = Null /\ q.pinned = Null
      <4>1. {q.pinned} \ {effective, Null} = {}
        BY <3>3
      <4> QED BY <1>5, <3>3, <4>1 DEF FirstGaps, PointerGap
    <3> QED BY <3>1, <3>2, <3>3
  <2> QED BY <2>1, <2>3, <2>4, <2>5
<1>8. OutcomeAt(c, q) = "COMMITTED"
  BY <1>2 DEF Collected
<1>9. Canonical(package) = [approved |-> Range(d.approved), relations |-> Range(d.relations),
                            evidence |-> Range(d.evidence), gaps |-> Range(d.gaps)]
  BY DEF Canonical
<1>10. Canonical(package) = PackageAt(c, q)
  BY <1>3, <1>4, <1>6, <1>7, <1>9 DEF PackageAt
<1> QED BY <1>8, <1>10

\* Nobody decides the key that another caller has reserved.
LEMMA DecidedLemma ==
    ASSUME IndInv, Next, NEW p \in Proc, Owns(p), operation'[ask[p].key] # operation[ask[p].key]
    PROVE  CommitPackage(p) \/ Reject(p)
<1>1. PICK x \in Proc : CommitPackage(x) \/ Reject(x)
  <2>1. operation' # operation
    OBVIOUS
  <2>2. ~Environment
    BY <2>1 DEF Environment, Approve, CreateVersion, Transition, InsertRelation, InsertEvidence, Change
  <2>3. ASSUME NEW x \in Proc PROVE ~Request(x) /\ ~RequestInVain(x) /\ ~Crash(x)
    BY <2>1 DEF Request, RequestInVain, Crash, rows
  <2>4. ASSUME NEW x \in Proc PROVE ~Insert(x) /\ ~Read(x)
    BY <2>1 DEF Insert, WinReservation, FindReservation, SerializationFailure, Read, ReadTarget,
       RejectPinned, AcceptPinned, ReadVersion, ResolveRelation, NoteDependency, RetrieveEvidence,
       Reads, rows
  <2>5. ASSUME NEW x \in Proc PROVE ~TakeSnapshot(x) /\ ~Replay(x) /\ ~FailToInsert(x) /\ ~Receive(x)
    BY <2>1 DEF TakeSnapshot, Replay, FailToInsert, Receive, rows
  <2> QED BY <2>2, <2>3, <2>4, <2>5 DEF Next, Step
<1>2. /\ Owns(x)
      /\ \E row : operation' = [operation EXCEPT ![ask[x].key] = row]
  BY <1>1 DEF CommitPackage, Reject, Decided, Owns
<1>3. /\ keyLock[ask[p].key] = p /\ keyLock[ask[x].key] = x
      /\ ask[p].key \in Key /\ DOMAIN operation = Key
  <2>1. pc[p] \notin {"idle", "return"}
    BY DEF Owns
  <2> QED BY <1>2, <2>1, AskLemma DEF IndInv, Locks, Rows
<1>4. ask[p].key = ask[x].key
  BY <1>2, <1>3
<1> QED BY <1>1, <1>3, <1>4

\* CR-37: what a request commits, a package or a rejection, is what one content said of it,
\* current at some moment between the call and the commit, whatever is approved, linked or
\* inserted between its statements.
THEOREM ContextOneMoment == Spec => PackageIsOneMoment
<1> DEFINE Moment ==
      \A p \in Proc :
         pc[p] \in {"commit", "reject"} /\ operation'[ask[p].key] # operation[ask[p].key] =>
           \E i \in since[p]..Len(history) :
              LET outcome == operation'[ask[p].key].outcome IN
              /\ outcome[1] = OutcomeAt(history[i], ask[p].payload)
              /\ outcome[1] = "COMMITTED" =>
                    Canonical(packages'[outcome[2]]) = PackageAt(history[i], ask[p].payload)
<1>1. ASSUME IndInv, [Next]_vars PROVE [Moment]_vars
  <2> SUFFICES ASSUME Next, NEW p \in Proc, pc[p] \in {"commit", "reject"},
                      operation'[ask[p].key] # operation[ask[p].key]
               PROVE  \E i \in since[p]..Len(history) :
                         LET outcome == operation'[ask[p].key].outcome IN
                         /\ outcome[1] = OutcomeAt(history[i], ask[p].payload)
                         /\ outcome[1] = "COMMITTED" =>
                               Canonical(packages'[outcome[2]]) = PackageAt(history[i], ask[p].payload)
    BY <1>1
  <2> DEFINE i == snapshot[p].content
             q == ask[p].payload
             k == ask[p].key
  <2>1. Owns(p)
    BY DEF Owns
  <2>2. i \in since[p]..Len(history) /\ Visible(p) = history[i]
    BY <1>1, <2>1 DEF IndInv, Caller, Visible
  <2>3. k \in Key /\ DOMAIN operation = Key
    BY <1>1, AskLemma DEF IndInv, Rows
  <2>4. CASE CommitPackage(p)
    <3> DEFINE n == Len(packages) + 1
               package == [key |-> k, payload |-> q, approved |-> draft[p].approved,
                           relations |-> draft[p].relations, evidence |-> draft[p].evidence,
                           gaps |-> draft[p].gaps]
    <3>1. /\ operation'[k].outcome = Committed(n) /\ packages' = Append(packages, package)
          /\ pc[p] = "commit"
      BY <2>3, <2>4 DEF CommitPackage, Decided
    <3>2. packages'[n] = package
      <4>1. IsSeq(packages)
        BY <1>1 DEF IndInv, Rows
      <4> HIDE DEF package
      <4> QED BY <3>1, <4>1, AppendLemma
    <3>3. OutcomeAt(history[i], q) = "COMMITTED" /\ Canonical(package) = PackageAt(history[i], q)
      BY <1>1, <2>2, <3>1, CollectedLemma
    <3> HIDE DEF package
    <3>4. operation'[k].outcome[1] = "COMMITTED" /\ operation'[k].outcome[2] = n
      BY <3>1 DEF Committed
    <3> QED BY <2>2, <3>2, <3>3, <3>4
  <2>5. CASE Reject(p)
    <3>1. operation'[k].outcome = result[p] /\ pc[p] = "reject"
      BY <2>3, <2>5 DEF Reject, Decided
    <3>2. result[p] \in Rejections /\ result[p][1] = OutcomeAt(history[i], q)
      BY <1>1, <3>1 DEF IndInv, Caller
    <3>3. result[p][1] # "COMMITTED"
      BY <3>2 DEF Rejections
    <3> QED BY <2>2, <3>1, <3>2, <3>3
  <2> QED BY <1>1, <2>1, <2>4, <2>5, DecidedLemma
<1> QED BY <1>1, Invariance, PTL DEF Spec, PackageIsOneMoment

-------------------------------------------------------------------------------
\* The refinement of ExactlyOnce.

\* What is recorded under a key, and what a caller is being told.
RecordOf(k) ==
    IF operation[k] = NoOne THEN NoOne
    ELSE [payload |-> operation[k].hash, outcome |-> operation[k].outcome]

ToldOf(p) ==
    IF pc[p] = "return" /\ ask[p] # NoOne
    THEN [key |-> ask[p].key, payload |-> ask[p].payload, outcome |-> result[p]]
    ELSE NoOne

LEMMA MappingLemma ==
    /\ Record = [k \in Key |-> RecordOf(k)] /\ Record' = [k \in Key |-> RecordOf(k)']
    /\ Told = [p \in Proc |-> ToldOf(p)] /\ Told' = [p \in Proc |-> ToldOf(p)']
BY DEF Record, RecordOf, Told, ToldOf

\* What a caller is told depends on its own locals.
ToldSame(x) == pc'[x] = pc[x] /\ ask'[x] = ask[x] /\ result'[x] = result[x]

LEMMA ToldLemma ==
    ASSUME NEW p \in Proc, \A x \in Proc \ {p} : ToldSame(x), NEW t, t = ToldOf(p)'
    PROVE  Told' = [Told EXCEPT ![p] = t]
<1>1. ASSUME NEW x \in Proc \ {p} PROVE ToldOf(x)' = ToldOf(x)
  BY DEF ToldOf, ToldSame
<1> QED BY <1>1, MappingLemma

\* A caller that has an answer to its request.
LEMMA AnswerLemma ==
    ASSUME NEW p \in Proc, NEW k \in Key, NEW h \in Payload, NEW s,
           pc'[p] = "return", ask'[p] \in Requests, ask'[p].key = k, ask'[p].payload = h,
           result'[p] = s
    PROVE  ToldOf(p)' = [key |-> k, payload |-> h, outcome |-> s]
<1>1. ask'[p] # NoOne
  BY ContextAssumption DEF Requests
<1> QED BY <1>1 DEF ToldOf

\* A decided reservation, as ExactlyOnce sees it.
LEMMA RecordedLemma ==
    ASSUME IndInv, NEW k \in Key, operation[k] # NoOne
    PROVE  /\ Record[k] # NoOne /\ Record[k].payload = operation[k].hash
           /\ Record[k].outcome = operation[k].outcome
<1>1. operation[k].hash \in Payload /\ operation[k].outcome \in Recorded
  <2>1. /\ operation[k].hash \in Payload
        /\ \/ operation[k].outcome \in Rejections
           \/ \E i \in 1..Len(packages) : operation[k].outcome = Committed(i)
    BY DEF IndInv, Rows
  <2>2. \A i \in 1..Len(packages) : Committed(i) \in {"COMMITTED"} \X Nat
    BY DEF Committed
  <2> QED BY <2>1, <2>2 DEF Recorded
<1>2. RecordOf(k) = [payload |-> operation[k].hash, outcome |-> operation[k].outcome]
  BY DEF RecordOf
<1>3. RecordOf(k) \in [payload : Payload, outcome : Recorded]
  BY <1>1, <1>2
<1>4. RecordOf(k) # NoOne
  BY <1>3, ContextAssumption
<1> QED BY <1>2, <1>4, MappingLemma

\* A step that decides nothing, and tells the caller nothing new.
LEMMA UnseenLemma ==
    ASSUME NEW p \in Proc, \A x \in Proc \ {p} : ToldSame(x), ToldOf(p)' = ToldOf(p),
           operation' = operation
    PROVE  [Once!OnceNext]_(Once!onceVars)
<1>1. Record' = Record
  BY DEF Record
<1>2. Told' = Told
  <2>1. \A x \in Proc : ToldOf(x)' = ToldOf(x)
    BY DEF ToldOf, ToldSame
  <2> QED BY <2>1, MappingLemma
<1> QED BY <1>1, <1>2 DEF Once!onceVars

\* A step of a caller in the middle of its request.
LEMMA SilentOnce ==
    ASSUME NEW p \in Proc, \A x \in Proc \ {p} : ToldSame(x), pc[p] # "return", pc'[p] # "return",
           operation' = operation
    PROVE  [Once!OnceNext]_(Once!onceVars)
<1>1. ToldOf(p) = NoOne /\ ToldOf(p)' = NoOne
  BY DEF ToldOf
<1> QED BY <1>1, UnseenLemma

\* A row of a key that was not decided decides it.
LEMMA DecideOnce ==
    ASSUME IndInv, NEW p \in Proc, \A x \in Proc \ {p} : ToldSame(x),
           NEW k \in Key, NEW h \in Payload,
           NEW s \in Rejections \union ({"COMMITTED"} \X (1..Cardinality(Key))), s \in Recorded,
           operation[k] = NoOne,
           operation' = [operation EXCEPT ![k] = [hash |-> h, outcome |-> s]],
           ToldOf(p)' = [key |-> k, payload |-> h, outcome |-> s]
    PROVE  [Once!OnceNext]_(Once!onceVars)
<1>1. PICK e \in [hash : Payload, outcome : Recorded] : e = [hash |-> h, outcome |-> s]
  OBVIOUS
<1>2. e # NoOne /\ e.hash = h /\ e.outcome = s
  BY <1>1, ContextAssumption
<1>3. operation'[k] = e /\ \A j \in Key \ {k} : operation'[j] = operation[j]
  BY <1>1 DEF IndInv, Rows
<1>4. RecordOf(k)' = [payload |-> h, outcome |-> s]
  BY <1>2, <1>3 DEF RecordOf
<1>5. \A j \in Key \ {k} : RecordOf(j)' = RecordOf(j)
  BY <1>3 DEF RecordOf
<1>6. /\ Record[k] = NoOne
      /\ Record' = [Record EXCEPT ![k] = [payload |-> h, outcome |-> s]]
  <2>1. RecordOf(k) = NoOne
    BY DEF RecordOf
  <2> QED BY <1>4, <1>5, <2>1, MappingLemma
<1>7. Told' = [Told EXCEPT ![p] = [key |-> k, payload |-> h, outcome |-> s]]
  BY ToldLemma
<1> QED BY <1>6, <1>7 DEF Once!Decide, Once!Answer, Once!OnceNext

\* There are not more packages than keys, if each has a key of its own.
LEMMA KeysBounded ==
    ASSUME IsFiniteSet(Key), NEW m \in Nat, NEW f \in [1..m -> Key],
           \A a, b \in 1..m : f[a] = f[b] => a = b
    PROVE  m <= Cardinality(Key) /\ Cardinality(Key) \in Nat
<1>1. f \in Injection(1..m, Key)
  BY DEF Injection, IsInjective
<1>2. Cardinality(1..m) = m
  BY FS_Interval
<1>3. Cardinality(1..m) <= Cardinality(Key)
  BY <1>1, FS_Injection
<1>4. Cardinality(Key) \in Nat
  BY FS_CardinalityType
<1> QED BY <1>2, <1>3, <1>4

\* The locals of a caller that ends its transaction with an answer.
LEMMA AnsweredLemma ==
    ASSUME IndInv, NEW p \in Proc, Answered(p), NEW s,
           result' = [result EXCEPT ![p] = s] \/ (result' = result /\ result[p] = s)
    PROVE  /\ \A x \in Proc \ {p} : ToldSame(x)
           /\ pc'[p] = "return" /\ ask' = ask /\ result'[p] = s
BY DEF Answered, Goto, ToldSame, IndInv, Functions

\* The owner of a key finds it undecided.
LEMMA OwnerLemma ==
    ASSUME IndInv, NEW p \in Proc, Owns(p)
    PROVE  ask[p].key \in Key /\ operation[ask[p].key] = NoOne
<1>1. ask[p].key \in Key
  BY AskLemma DEF Owns
<1>2. keyLock[ask[p].key] = p
  BY DEF IndInv, Locks
<1> QED BY <1>1, <1>2, ContextAssumption DEF IndInv, Locks

LEMMA CommitPackageOnce ==
    ASSUME IndInv, IsFiniteSet(Key), NEW p \in Proc, CommitPackage(p)
    PROVE  [Once!OnceNext]_(Once!onceVars)
<1>1. Owns(p) /\ ask[p] \in Requests
  BY AskLemma DEF CommitPackage, Owns
<1>2. PICK k \in Key, h \in Payload : k = ask[p].key /\ h = ask[p].payload
  BY <1>1 DEF Requests
<1>3. PICK n : n = Len(packages) + 1
  OBVIOUS
<1>4. PICK s : s = Committed(n)
  OBVIOUS
<1>5. /\ Answered(p) /\ result' = [result EXCEPT ![p] = s]
      /\ operation' = [operation EXCEPT ![k] = [hash |-> h, outcome |-> s]]
  BY <1>2, <1>3, <1>4 DEF CommitPackage, Decided, Result
<1>6. operation[k] = NoOne
  BY <1>1, <1>2, OwnerLemma
<1>7. n \in 1..Cardinality(Key) /\ n \in Nat
  <2>1. Len(packages) \in Nat
    BY DEF IndInv, Rows, IsSeq
  <2>2. n \in Nat /\ n \in 1..n /\ \A i \in 1..n : i # n => i \in 1..Len(packages)
    BY <1>3, <2>1
  <2>3. ASSUME NEW i \in 1..Len(packages)
        PROVE  /\ packages[i].key \in Key /\ operation[packages[i].key] # NoOne
               /\ operation[packages[i].key].outcome = Committed(i)
    <3>1. operation[packages[i].key] = [hash |-> packages[i].payload, outcome |-> Committed(i)]
      BY DEF IndInv, Rows
    <3>2. packages[i].key \in Key /\ operation[packages[i].key] # NoOne
      BY DEF IndInv, Rows
    <3> QED BY <3>1, <3>2
  <2> DEFINE f == [i \in 1..n |-> IF i = n THEN k ELSE packages[i].key]
  <2>4. f \in [1..n -> Key]
    BY <2>2, <2>3
  <2>5. ASSUME NEW a \in 1..n, NEW b \in 1..n, f[a] = f[b] PROVE a = b
    BY <1>6, <2>2, <2>3, <2>5 DEF Committed
  <2> HIDE DEF f
  <2>6. n <= Cardinality(Key) /\ Cardinality(Key) \in Nat
    BY <2>2, <2>4, <2>5, KeysBounded
  <2> QED BY <2>2, <2>6
<1>8. s \in {"COMMITTED"} \X (1..Cardinality(Key)) /\ s \in Recorded
  BY <1>4, <1>7 DEF Committed, Recorded
<1>9. ToldOf(p)' = [key |-> k, payload |-> h, outcome |-> s]
  <2>1. pc'[p] = "return" /\ ask'[p] = ask[p] /\ result'[p] = s
    BY <1>5, AnsweredLemma
  <2> QED BY <1>1, <1>2, <2>1, AnswerLemma
<1> QED BY <1>5, <1>6, <1>8, <1>9, AnsweredLemma, DecideOnce

LEMMA RejectOnce ==
    ASSUME IndInv, NEW p \in Proc, Reject(p)
    PROVE  [Once!OnceNext]_(Once!onceVars)
<1>1. Owns(p) /\ ask[p] \in Requests
  BY AskLemma DEF Reject, Owns
<1>2. PICK k \in Key, h \in Payload : k = ask[p].key /\ h = ask[p].payload
  BY <1>1 DEF Requests
<1>3. PICK s \in Rejections : s = result[p]
  BY DEF Reject, IndInv, Caller
<1>4. /\ Answered(p) /\ result' = result /\ result[p] = s
      /\ operation' = [operation EXCEPT ![k] = [hash |-> h, outcome |-> s]]
  BY <1>2, <1>3 DEF Reject, Decided
<1>5. operation[k] = NoOne
  BY <1>1, <1>2, OwnerLemma
<1>6. ToldOf(p)' = [key |-> k, payload |-> h, outcome |-> s]
  <2>1. pc'[p] = "return" /\ ask'[p] = ask[p] /\ result'[p] = s
    BY <1>4, AnsweredLemma
  <2> QED BY <1>1, <1>2, <2>1, AnswerLemma
<1>7. s \in Recorded
  BY DEF Recorded
<1> QED BY <1>4, <1>5, <1>6, <1>7, AnsweredLemma, DecideOnce

\* The aborted transaction answers and decides nothing: a refusal.
LEMMA FailToInsertOnce ==
    ASSUME IndInv, NEW p \in Proc, FailToInsert(p)
    PROVE  [Once!OnceNext]_(Once!onceVars)
<1>1. Owns(p) /\ ask[p] \in Requests
  BY AskLemma DEF FailToInsert, Owns
<1>2. PICK k \in Key, h \in Payload : k = ask[p].key /\ h = ask[p].payload
  BY <1>1 DEF Requests
<1>3. /\ Answered(p) /\ result' = [result EXCEPT ![p] = IntegrityError] /\ operation' = operation
  BY DEF FailToInsert, Result, rows
<1>4. ToldOf(p)' = [key |-> k, payload |-> h, outcome |-> IntegrityError]
  <2>1. pc'[p] = "return" /\ ask'[p] = ask[p] /\ result'[p] = IntegrityError
    BY <1>3, AnsweredLemma
  <2> QED BY <1>1, <1>2, <2>1, AnswerLemma
<1>5. Told' = [Told EXCEPT ![p] = [key |-> k, payload |-> h, outcome |-> IntegrityError]]
  BY <1>3, <1>4, AnsweredLemma, ToldLemma
<1>6. Record[k] = NoOne /\ Record' = Record
  <2>1. RecordOf(k) = NoOne
    BY <1>1, <1>2, OwnerLemma DEF RecordOf
  <2> QED BY <1>3, <2>1, MappingLemma DEF Record
<1> QED BY <1>5, <1>6 DEF Once!Refuse, Once!Answer, Once!OnceNext

\* What is recorded is repeated, or the payload is another.
LEMMA ReplayOnce ==
    ASSUME IndInv, NEW p \in Proc, Replay(p)
    PROVE  [Once!OnceNext]_(Once!onceVars)
<1>1. ask[p] \in Requests
  BY AskLemma DEF Replay
<1>2. PICK k \in Key, h \in Payload : k = ask[p].key /\ h = ask[p].payload
  BY <1>1 DEF Requests
<1>3. operation[k] # NoOne
  BY <1>2 DEF Replay, IndInv, Caller
<1>4. PICK s : s = IF operation[k].hash = h THEN operation[k].outcome ELSE IdempotencyConflict
  OBVIOUS
<1>5. Answered(p) /\ result' = [result EXCEPT ![p] = s] /\ operation' = operation
  BY <1>2, <1>4 DEF Replay, Result, rows
<1>6. ToldOf(p)' = [key |-> k, payload |-> h, outcome |-> s]
  <2>1. pc'[p] = "return" /\ ask'[p] = ask[p] /\ result'[p] = s
    BY <1>5, AnsweredLemma
  <2> QED BY <1>1, <1>2, <2>1, AnswerLemma
<1>7. Told' = [Told EXCEPT ![p] = [key |-> k, payload |-> h, outcome |-> s]]
  BY <1>5, <1>6, AnsweredLemma, ToldLemma
<1>8. /\ Record[k] # NoOne
      /\ s = IF Record[k].payload = h THEN Record[k].outcome ELSE IdempotencyConflict
  BY <1>3, <1>4, RecordedLemma
<1>9. Record' = Record
  BY <1>5 DEF Record
<1> QED BY <1>7, <1>8, <1>9 DEF Once!Repeat, Once!Answer, Once!OnceNext

\* Each step of a caller is a step of ExactlyOnce, or is not seen.
LEMMA StepOnce ==
    ASSUME IndInv, IsFiniteSet(Key), NEW p \in Proc,
           Request(p) \/ RequestInVain(p) \/ Step(p) \/ Crash(p)
    PROVE  [Once!OnceNext]_(Once!onceVars)
<1>1. pc = [x \in Proc |-> pc[x]] /\ ask = [x \in Proc |-> ask[x]] /\ DOMAIN result = Proc
  BY DEF IndInv, Functions
<1>2. CASE Request(p)
  <2>1. /\ pc[p] = "idle" /\ \E a : ask' = [ask EXCEPT ![p] = a]
        /\ pc' = [pc EXCEPT ![p] = "begin"] /\ result' = result /\ operation' = operation
    BY <1>2 DEF Request, Goto, rows
  <2>2. /\ \A x \in Proc \ {p} : ToldSame(x)
        /\ pc'[p] # "return"
    BY <1>1, <2>1 DEF ToldSame
  <2> QED BY <2>1, <2>2, SilentOnce
<1>3. CASE RequestInVain(p)
  <2>1. /\ pc[p] = "idle" /\ ask' = ask /\ pc' = [pc EXCEPT ![p] = "return"]
        /\ operation' = operation /\ \E s : result' = [result EXCEPT ![p] = s]
    BY <1>3 DEF RequestInVain, Goto, Result, rows, request
  <2>2. \A x \in Proc \ {p} : ToldSame(x)
    BY <1>1, <2>1 DEF ToldSame
  <2>3. ask[p] = NoOne
    BY <2>1 DEF IndInv, Caller
  <2>4. ToldOf(p) = NoOne /\ ToldOf(p)' = NoOne
    BY <2>1, <2>3 DEF ToldOf
  <2> QED BY <2>1, <2>2, <2>4, UnseenLemma
<1>4. CASE TakeSnapshot(p) \/ Insert(p)
  <2>1. /\ pc[p] \in {"begin", "insert"} /\ ask' = ask /\ result' = result /\ operation' = operation
        /\ \E l \in {"insert", "target", "replay", "begin"} : pc' = [pc EXCEPT ![p] = l]
    BY <1>4 DEF TakeSnapshot, Insert, WinReservation, FindReservation, SerializationFailure, Goto,
       rows, request
  <2>2. /\ \A x \in Proc \ {p} : ToldSame(x)
        /\ pc[p] # "return" /\ pc'[p] # "return"
    BY <1>1, <2>1 DEF ToldSame
  <2> QED BY <2>1, <2>2, SilentOnce
<1>5. CASE Replay(p)
  BY <1>5, ReplayOnce
<1>6. CASE Read(p)
  <2>1. /\ pc[p] # "return" /\ ask' = ask /\ operation' = operation
        /\ result' = result \/ \E s : result' = [result EXCEPT ![p] = s]
        /\ \E l \in {"version", "pinned", "reject", "relations", "dependencies", "evidence", "commit"} :
              pc' = [pc EXCEPT ![p] = l]
    <3>1. CASE RejectPinned(p)
      BY <3>1 DEF RejectPinned, Result, Goto, Reads, rows, request
    <3>2. CASE ReadTarget(p) \/ AcceptPinned(p) \/ ReadVersion(p)
      BY <3>2 DEF ReadTarget, AcceptPinned, ReadVersion, Goto, Reads, rows, request
    <3>3. CASE ResolveRelation(p) \/ NoteDependency(p) \/ RetrieveEvidence(p)
      BY <3>3 DEF ResolveRelation, NoteDependency, RetrieveEvidence, Goto, Reads, rows, request
    <3> QED BY <1>6, <3>1, <3>2, <3>3 DEF Read
  <2>2. /\ \A x \in Proc \ {p} : ToldSame(x)
        /\ pc'[p] # "return"
    BY <1>1, <2>1 DEF ToldSame
  <2> QED BY <2>1, <2>2, SilentOnce
<1>7. CASE CommitPackage(p)
  BY <1>7, CommitPackageOnce
<1>8. CASE FailToInsert(p)
  BY <1>8, FailToInsertOnce
<1>9. CASE Reject(p)
  BY <1>9, RejectOnce
<1>10. CASE Receive(p) \/ Crash(p)
  <2>1. Leave(p) /\ operation' = operation
    BY <1>10 DEF Receive, Crash, rows
  <2>2. /\ \A x \in Proc \ {p} : ToldSame(x)
        /\ pc'[p] = "idle"
    BY <1>1, <2>1 DEF Leave, Goto, Result, ToldSame
  <2>3. ToldOf(p)' = NoOne
    BY <2>2 DEF ToldOf
  <2>4. Told' = [Told EXCEPT ![p] = NoOne] /\ Record' = Record
    BY <2>1, <2>2, <2>3, ToldLemma DEF Record
  <2> QED BY <2>4 DEF Once!Leave, Once!OnceNext
<1> QED BY <1>2, <1>3, <1>4, <1>5, <1>6, <1>7, <1>8, <1>9, <1>10 DEF Step

\* assemble_context implements ExactlyOnce: whoever repeats a request is given the package, or the
\* rejection, that the first of them recorded; another payload under the key is told so; and the
\* failed insertion for an unknown object leaves the key as it was.  (A key is a PostgreSQL text,
\* of at most 1 GB, so the keys are finitely many.)
THEOREM ContextExactlyOnce ==
    ASSUME IsFiniteSet(Key)
    PROVE  Spec => ExactlyOnceSpec
<1>1. Init => Once!OnceInit
  <2> SUFFICES ASSUME Init PROVE Once!OnceInit
    OBVIOUS
  <2>1. /\ \A k \in Key : RecordOf(k) = NoOne
        /\ \A p \in Proc : ToldOf(p) = NoOne
    BY DEF Init, RecordOf, ToldOf
  <2> QED BY <2>1, MappingLemma DEF Once!OnceInit
<1>2. IndInv /\ [Next]_vars => [Once!OnceNext]_(Once!onceVars)
  <2> SUFFICES ASSUME IndInv, [Next]_vars PROVE [Once!OnceNext]_(Once!onceVars)
    OBVIOUS
  <2>1. ASSUME Environment \/ UNCHANGED vars PROVE UNCHANGED <<Record, Told>>
    <3>1. operation' = operation /\ pc' = pc /\ ask' = ask /\ result' = result
      <4>1. CASE UNCHANGED vars
        BY <4>1 DEF vars, rows, request
      <4>2. CASE Environment
        BY <4>2 DEF Environment, Approve, CreateVersion, Transition, InsertRelation, InsertEvidence,
           Change, request
      <4> QED BY <2>1, <4>1, <4>2
    <3> QED BY <3>1 DEF Record, Told
  <2> QED BY <2>1, StepOnce DEF Next, Once!onceVars
<1> QED BY <1>1, <1>2, Invariance, PTL DEF Spec, ExactlyOnceSpec, Once!OnceSpec
===============================================================================
