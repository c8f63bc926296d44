---------------------------- MODULE AgentRunProofs ----------------------------
(***************************************************************************)
(* Proofs about AgentRun, for any number of requests, workers, attempts    *)
(* and crashes and any lease duration.                                     *)
(***************************************************************************)
EXTENDS AgentRun, TLAPS

-------------------------------------------------------------------------------
\* What the operators on attempts return.

\* create_attempt adds one open attempt at the end and touches no other.
LEMMA CreateAttemptLemma ==
    ASSUME NEW h \in Seq(Attempt), NEW n \in Nat, NEW g \in Nat
    PROVE  /\ CreateAttempt(h, n, g) \in Seq(Attempt)
           /\ Len(CreateAttempt(h, n, g)) = Len(h) + 1
           /\ \A i \in DOMAIN h : CreateAttempt(h, n, g)[i] = h[i]
           /\ CreateAttempt(h, n, g)[Len(h) + 1]
                = [number |-> n, generation |-> g, outcome |-> "open"]
BY DEF CreateAttempt, Attempt, Outcomes

\* The fields of a recorded attempt.
LEMMA AttemptLemma ==
    ASSUME NEW h \in Seq(Attempt), NEW i \in DOMAIN h
    PROVE  h[i].number \in Nat /\ h[i].generation \in Nat /\ h[i].outcome \in Outcomes
<1>1. h[i] \in Attempt
  OBVIOUS
<1> QED BY <1>1 DEF Attempt

\* Setting the outcome of an attempt gives an attempt.
LEMMA OutcomeLemma ==
    ASSUME NEW a \in Attempt, NEW o \in Outcomes
    PROVE  /\ [a EXCEPT !.outcome = o] \in Attempt
           /\ [a EXCEPT !.outcome = o].number = a.number
           /\ [a EXCEPT !.outcome = o].generation = a.generation
           /\ [a EXCEPT !.outcome = o].outcome = o
BY DEF Attempt

\* close_attempt changes the outcome of one attempt, and only if it is open.
LEMMA CloseAttemptLemma ==
    ASSUME NEW h \in Seq(Attempt), NEW i \in DOMAIN h, NEW o \in Outcomes
    PROVE  /\ CloseAttempt(h, i, o) \in Seq(Attempt)
           /\ Len(CloseAttempt(h, i, o)) = Len(h)
           /\ \A j \in DOMAIN h :
                /\ CloseAttempt(h, i, o)[j].number = h[j].number
                /\ CloseAttempt(h, i, o)[j].generation = h[j].generation
                /\ CloseAttempt(h, i, o)[j].outcome =
                     IF j = i /\ h[j].outcome = "open" THEN o ELSE h[j].outcome
                /\ h[j].outcome # "open" => CloseAttempt(h, i, o)[j] = h[j]
<1>1. CASE h[i].outcome = "open"
  <2> DEFINE c == [h EXCEPT ![i] = [h[i] EXCEPT !.outcome = o]]
  <2>0. h[i] \in Attempt /\ h \in [1..Len(h) -> Attempt] /\ DOMAIN h = 1..Len(h)
    OBVIOUS
  <2>1. c \in [1..Len(h) -> Attempt]
    BY <2>0, OutcomeLemma
  <2>2. c \in Seq(Attempt) /\ Len(c) = Len(h)
    BY <2>1
  <2>3. \A j \in DOMAIN h : c[j] = IF j = i THEN [h[i] EXCEPT !.outcome = o] ELSE h[j]
    BY <2>0
  <2>4. CloseAttempt(h, i, o) = c
    BY <1>1 DEF CloseAttempt
  <2>5. \A j \in DOMAIN h :
           /\ c[j].number = h[j].number
           /\ c[j].generation = h[j].generation
           /\ c[j].outcome = IF j = i /\ h[j].outcome = "open" THEN o ELSE h[j].outcome
           /\ h[j].outcome # "open" => c[j] = h[j]
    BY <1>1, <2>0, <2>3, OutcomeLemma
  <2> QED BY <2>2, <2>4, <2>5
<1>2. CASE h[i].outcome # "open"
  BY <1>2 DEF CloseAttempt
<1> QED BY <1>1, <1>2

\* reclaim() closes every open attempt as CLAIM_LOST.
LEMMA CloseAbandonedLemma ==
    ASSUME NEW h \in Seq(Attempt)
    PROVE  /\ CloseAbandoned(h) \in Seq(Attempt)
           /\ Len(CloseAbandoned(h)) = Len(h)
           /\ \A j \in DOMAIN h :
                /\ CloseAbandoned(h)[j].number = h[j].number
                /\ CloseAbandoned(h)[j].generation = h[j].generation
                /\ CloseAbandoned(h)[j].outcome =
                     IF h[j].outcome = "open" THEN "CLAIM_LOST" ELSE h[j].outcome
                /\ h[j].outcome # "open" => CloseAbandoned(h)[j] = h[j]
<1>0. h \in [1..Len(h) -> Attempt] /\ DOMAIN h = 1..Len(h)
  OBVIOUS
<1>1. \A j \in DOMAIN h :
         CloseAbandoned(h)[j] = IF h[j].outcome = "open"
                                THEN [h[j] EXCEPT !.outcome = "CLAIM_LOST"]
                                ELSE h[j]
  BY DEF CloseAbandoned
<1>2. "CLAIM_LOST" \in Outcomes
  BY DEF Outcomes
<1>3. \A j \in DOMAIN h :
         /\ CloseAbandoned(h)[j] \in Attempt
         /\ CloseAbandoned(h)[j].number = h[j].number
         /\ CloseAbandoned(h)[j].generation = h[j].generation
         /\ CloseAbandoned(h)[j].outcome =
              IF h[j].outcome = "open" THEN "CLAIM_LOST" ELSE h[j].outcome
         /\ h[j].outcome # "open" => CloseAbandoned(h)[j] = h[j]
  <2> TAKE j \in DOMAIN h
  <2>1. h[j] \in Attempt
    BY <1>0
  <2>2. CASE h[j].outcome = "open"
    <3>1. CloseAbandoned(h)[j] = [h[j] EXCEPT !.outcome = "CLAIM_LOST"]
      BY <1>1, <2>2
    <3> QED BY <3>1, <1>2, <2>1, <2>2, OutcomeLemma
  <2>3. CASE h[j].outcome # "open"
    BY <1>1, <2>1, <2>3
  <2> QED BY <2>2, <2>3
<1>4. CloseAbandoned(h) \in [1..Len(h) -> Attempt]
  BY <1>0, <1>3 DEF CloseAbandoned
<1>5. CloseAbandoned(h) \in Seq(Attempt) /\ Len(CloseAbandoned(h)) = Len(h)
  BY <1>4
<1> QED BY <1>3, <1>5

\* next_attempt_number is the count plus one as long as the numbers have no gaps.
LEMMA NextAttemptNumberLemma ==
    ASSUME NEW h \in Seq(Attempt), \A i \in DOMAIN h : h[i].number = i
    PROVE  NextAttemptNumber(h) = Len(h) + 1
<1> DEFINE S == {0} \union {h[i].number : i \in DOMAIN h}
<1>1. S = 0..Len(h)
  BY DEF Attempt
<1>2. Len(h) \in S /\ \A y \in S : Len(h) >= y
  BY <1>1
<1>3. \A x \in S : (\A y \in S : x >= y) => x = Len(h)
  BY <1>1, <1>2
<1>4. Max(S) = Len(h)
  BY <1>2, <1>3 DEF Max
<1> QED BY <1>4 DEF NextAttemptNumber

-------------------------------------------------------------------------------
\* A lease a statement may plan is a lease.
LEMMA PlannedLemma ==
    ASSUME planned \in [Proc -> 0..LeaseDuration], NEW p \in Proc
    PROVE  /\ [planned EXCEPT ![p] = LeaseDuration] \in [Proc -> 0..LeaseDuration]
           /\ [planned EXCEPT ![p] = 0] \in [Proc -> 0..LeaseDuration]
<1>1. LeaseDuration \in 0..LeaseDuration /\ 0 \in 0..LeaseDuration
  BY ConstantsAssumption
<1> QED BY <1>1

\* The conjuncts of IndInv that speak of committed rows only.
DataInv ==
    /\ StartFacts /\ FreshFacts
    /\ FinalisationAtomic /\ PublishedUnderCurrentToken /\ OneTransition
    /\ OpenAttemptIsCurrent /\ AttemptBudget /\ FailedMeansExhausted
    /\ ClaimLostIsTrue /\ AnswersAgree

DataVars == <<status, claimedBy, lease, generation, attempts, content, version, transitions,
              audit, answers>>

\* A step that changes no committed row preserves what is said of them.
LEMMA DataUnchanged ==
    ASSUME DataInv, UNCHANGED DataVars
    PROVE  DataInv'
BY DEF DataInv, DataVars, StartFacts, FreshFacts, FinalisationAtomic,
       PublishedUnderCurrentToken, OneTransition, OpenAttemptIsCurrent, AttemptBudget,
       FailedMeansExhausted, ClaimLostIsTrue, LeaseIsExpired, AnswersAgree

\* A request starts.
LEMMA StartStep ==
    ASSUME Types, IndInv, NEW p \in Proc, Start(p)
    PROVE  Types' /\ IndInv'
<1>1. UNCHANGED DataVars
  BY DEF Start, DataVars, row, outputs
<1>2. Types'
  BY DEF Types, Start, Goto, row, outputs, Waiting, Holding, Unlocked
<1>3. DataInv'
  BY <1>1, DataUnchanged DEF IndInv, DataInv
<1>4. LockDiscipline'
  BY DEF IndInv, LockDiscipline, Start, Goto, Types, Holding
<1>5. LockedFacts'
  BY DEF IndInv, LockedFacts, Start, Goto, Types, row, Acquirable, Reclaimable, LeaseIsExpired, Current, TokenLabels
<1>6. TokenFacts'
  BY DEF IndInv, TokenFacts, TokenFact, Start, Goto, Types, row, LeaseIsExpired, Current, TokenLabels
<1>7. LostFacts'
  BY DEF IndInv, LostFacts, Start, Goto, Types, row, Current, TokenLabels
<1> QED BY <1>2, <1>3, <1>4, <1>5, <1>6, <1>7 DEF IndInv, DataInv

\* acquire() evaluates its UPDATE.
LEMMA AcquireEvaluateStep ==
    ASSUME Types, IndInv, NEW p \in Proc, AcquireEvaluate(p)
    PROVE  Types' /\ IndInv'
<1>1. UNCHANGED DataVars
  BY DEF AcquireEvaluate, UpdateEvaluate, DataVars, row, outputs
<1>2. Types'
  <2>1. planned' \in [Proc -> 0..LeaseDuration]
    BY PlannedLemma DEF Types, AcquireEvaluate, UpdateEvaluate
  <2>2. pc' \in [Proc -> Waiting \union Holding \union Unlocked]
    BY DEF Types, AcquireEvaluate, UpdateEvaluate, Goto, Waiting, Holding, Unlocked
  <2>3. myGeneration' \in [Proc -> Nat] /\ myAttempt' \in [Proc -> Nat]
    BY DEF Types, AcquireEvaluate, UpdateEvaluate
  <2>4. rowLock' \in Proc \union {NoOne} /\ superseded' \in SUBSET Proc /\ crashes' \in 0..MaxCrashes
    BY ConstantsAssumption DEF Types, AcquireEvaluate, UpdateEvaluate, row, outputs
  <2> QED BY <1>1, <2>1, <2>2, <2>3, <2>4 DEF Types, DataVars
<1>3. DataInv'
  BY <1>1, DataUnchanged DEF IndInv, DataInv
<1>4. LockDiscipline'
  BY ConstantsAssumption DEF IndInv, LockDiscipline, AcquireEvaluate, UpdateEvaluate, Goto, Types, Holding
<1>5. LockedFacts'
  BY ConstantsAssumption DEF IndInv, LockDiscipline, LockedFacts, AcquireEvaluate, UpdateEvaluate, Goto, Types, row,
     Holding, Acquirable, Reclaimable, LeaseIsExpired, Current, TokenLabels
<1>6. TokenFacts'
  BY DEF IndInv, TokenFacts, TokenFact, AcquireEvaluate, UpdateEvaluate, Goto, Types, row, LeaseIsExpired, Current, TokenLabels
<1>7. LostFacts'
  BY DEF IndInv, LostFacts, AcquireEvaluate, UpdateEvaluate, Goto, Types, row, Current, TokenLabels
<1> QED BY <1>2, <1>3, <1>4, <1>5, <1>6, <1>7 DEF IndInv, DataInv

\* acquire() gets the row lock, or learns that the run is no longer PENDING.
LEMMA AcquireLockStep ==
    ASSUME Types, IndInv, NEW p \in Proc, AcquireLock(p)
    PROVE  Types' /\ IndInv'
<1>1. UNCHANGED DataVars
  BY DEF AcquireLock, UpdateLock, DataVars, row, outputs
<1>2. Types'
  <2>1. planned' \in [Proc -> 0..LeaseDuration]
    BY PlannedLemma DEF Types, AcquireLock, UpdateLock
  <2>2. pc' \in [Proc -> Waiting \union Holding \union Unlocked]
    BY DEF Types, AcquireLock, UpdateLock, Goto, Waiting, Holding, Unlocked
  <2>3. myGeneration' \in [Proc -> Nat] /\ myAttempt' \in [Proc -> Nat]
    BY DEF Types, AcquireLock, UpdateLock
  <2>4. rowLock' \in Proc \union {NoOne} /\ superseded' \in SUBSET Proc /\ crashes' \in 0..MaxCrashes
    BY ConstantsAssumption DEF Types, AcquireLock, UpdateLock, row, outputs
  <2> QED BY <1>1, <2>1, <2>2, <2>3, <2>4 DEF Types, DataVars
<1>3. DataInv'
  BY <1>1, DataUnchanged DEF IndInv, DataInv
<1>4. LockDiscipline'
  BY ConstantsAssumption DEF IndInv, LockDiscipline, AcquireLock, UpdateLock, Goto, Types, Holding
<1>5. LockedFacts'
  BY ConstantsAssumption DEF IndInv, LockDiscipline, LockedFacts, AcquireLock, UpdateLock, Goto, Types, row,
     Holding, Acquirable, Reclaimable, LeaseIsExpired, Current, TokenLabels
<1>6. TokenFacts'
  BY DEF IndInv, TokenFacts, TokenFact, AcquireLock, UpdateLock, Goto, Types, row, LeaseIsExpired, Current, TokenLabels
<1>7. LostFacts'
  BY DEF IndInv, LostFacts, AcquireLock, UpdateLock, Goto, Types, row, Current, TokenLabels
<1> QED BY <1>2, <1>3, <1>4, <1>5, <1>6, <1>7 DEF IndInv, DataInv

\* reclaim() evaluates its UPDATE.
LEMMA ReclaimEvaluateStep ==
    ASSUME Types, IndInv, NEW p \in Proc, ReclaimEvaluate(p)
    PROVE  Types' /\ IndInv'
<1>1. UNCHANGED DataVars
  BY DEF ReclaimEvaluate, UpdateEvaluate, DataVars, row, outputs
<1>2. Types'
  <2>1. planned' \in [Proc -> 0..LeaseDuration]
    BY PlannedLemma DEF Types, ReclaimEvaluate, UpdateEvaluate
  <2>2. pc' \in [Proc -> Waiting \union Holding \union Unlocked]
    BY DEF Types, ReclaimEvaluate, UpdateEvaluate, Goto, Waiting, Holding, Unlocked
  <2>3. myGeneration' \in [Proc -> Nat] /\ myAttempt' \in [Proc -> Nat]
    BY DEF Types, ReclaimEvaluate, UpdateEvaluate
  <2>4. rowLock' \in Proc \union {NoOne} /\ superseded' \in SUBSET Proc /\ crashes' \in 0..MaxCrashes
    BY ConstantsAssumption DEF Types, ReclaimEvaluate, UpdateEvaluate, row, outputs
  <2> QED BY <1>1, <2>1, <2>2, <2>3, <2>4 DEF Types, DataVars
<1>3. DataInv'
  BY <1>1, DataUnchanged DEF IndInv, DataInv
<1>4. LockDiscipline'
  BY ConstantsAssumption DEF IndInv, LockDiscipline, ReclaimEvaluate, UpdateEvaluate, Goto, Types, Holding
<1>5. LockedFacts'
  BY ConstantsAssumption DEF IndInv, LockDiscipline, LockedFacts, ReclaimEvaluate, UpdateEvaluate, Goto, Types, row,
     Holding, Acquirable, Reclaimable, LeaseIsExpired, Current, TokenLabels
<1>6. TokenFacts'
  BY DEF IndInv, TokenFacts, TokenFact, ReclaimEvaluate, UpdateEvaluate, Goto, Types, row, LeaseIsExpired, Current, TokenLabels
<1>7. LostFacts'
  BY DEF IndInv, LostFacts, ReclaimEvaluate, UpdateEvaluate, Goto, Types, row, Current, TokenLabels
<1> QED BY <1>2, <1>3, <1>4, <1>5, <1>6, <1>7 DEF IndInv, DataInv

\* reclaim() gets the row lock, or learns that the lease was renewed.
LEMMA ReclaimLockStep ==
    ASSUME Types, IndInv, NEW p \in Proc, ReclaimLock(p)
    PROVE  Types' /\ IndInv'
<1>1. UNCHANGED DataVars
  BY DEF ReclaimLock, UpdateLock, DataVars, row, outputs
<1>2. Types'
  <2>1. planned' \in [Proc -> 0..LeaseDuration]
    BY PlannedLemma DEF Types, ReclaimLock, UpdateLock
  <2>2. pc' \in [Proc -> Waiting \union Holding \union Unlocked]
    BY DEF Types, ReclaimLock, UpdateLock, Goto, Waiting, Holding, Unlocked
  <2>3. myGeneration' \in [Proc -> Nat] /\ myAttempt' \in [Proc -> Nat]
    BY DEF Types, ReclaimLock, UpdateLock
  <2>4. rowLock' \in Proc \union {NoOne} /\ superseded' \in SUBSET Proc /\ crashes' \in 0..MaxCrashes
    BY ConstantsAssumption DEF Types, ReclaimLock, UpdateLock, row, outputs
  <2> QED BY <1>1, <2>1, <2>2, <2>3, <2>4 DEF Types, DataVars
<1>3. DataInv'
  BY <1>1, DataUnchanged DEF IndInv, DataInv
<1>4. LockDiscipline'
  BY ConstantsAssumption DEF IndInv, LockDiscipline, ReclaimLock, UpdateLock, Goto, Types, Holding
<1>5. LockedFacts'
  BY ConstantsAssumption DEF IndInv, LockDiscipline, LockedFacts, ReclaimLock, UpdateLock, Goto, Types, row,
     Holding, Acquirable, Reclaimable, LeaseIsExpired, Current, TokenLabels
<1>6. TokenFacts'
  BY DEF IndInv, TokenFacts, TokenFact, ReclaimLock, UpdateLock, Goto, Types, row, LeaseIsExpired, Current, TokenLabels
<1>7. LostFacts'
  BY DEF IndInv, LostFacts, ReclaimLock, UpdateLock, Goto, Types, row, Current, TokenLabels
<1> QED BY <1>2, <1>3, <1>4, <1>5, <1>6, <1>7 DEF IndInv, DataInv

\* The provider returns valid output.
LEMMA CallSucceedsStep ==
    ASSUME Types, IndInv, NEW p \in Proc, CallSucceeds(p)
    PROVE  Types' /\ IndInv'
<1>1. UNCHANGED DataVars
  BY DEF CallSucceeds, DataVars, row, outputs
<1>2. Types'
  <2>1. planned' \in [Proc -> 0..LeaseDuration]
    BY PlannedLemma DEF Types, CallSucceeds
  <2>2. pc' \in [Proc -> Waiting \union Holding \union Unlocked]
    BY DEF Types, CallSucceeds, Goto, Waiting, Holding, Unlocked
  <2>3. myGeneration' \in [Proc -> Nat] /\ myAttempt' \in [Proc -> Nat]
    BY DEF Types, CallSucceeds
  <2>4. rowLock' \in Proc \union {NoOne} /\ superseded' \in SUBSET Proc /\ crashes' \in 0..MaxCrashes
    BY ConstantsAssumption DEF Types, CallSucceeds, row, outputs
  <2> QED BY <1>1, <2>1, <2>2, <2>3, <2>4 DEF Types, DataVars
<1>3. DataInv'
  BY <1>1, DataUnchanged DEF IndInv, DataInv
<1>4. LockDiscipline'
  BY ConstantsAssumption DEF IndInv, LockDiscipline, CallSucceeds, Goto, Types, Holding
<1>5. LockedFacts'
  BY ConstantsAssumption DEF IndInv, LockDiscipline, LockedFacts, CallSucceeds, Goto, Types, row,
     Holding, Acquirable, Reclaimable, LeaseIsExpired, Current, TokenLabels
<1>6. TokenFacts'
  BY DEF IndInv, TokenFacts, TokenFact, CallSucceeds, Goto, Types, row, LeaseIsExpired, Current, TokenLabels
<1>7. LostFacts'
  BY DEF IndInv, LostFacts, CallSucceeds, Goto, Types, row, Current, TokenLabels
<1> QED BY <1>2, <1>3, <1>4, <1>5, <1>6, <1>7 DEF IndInv, DataInv

\* A retry waits for the row.
LEMMA RefreshLockStep ==
    ASSUME Types, IndInv, NEW p \in Proc, RefreshLock(p)
    PROVE  Types' /\ IndInv'
<1>1. UNCHANGED DataVars
  BY DEF RefreshLock, LockAgentRunRowForUpdate, DataVars, row, outputs
<1>2. Types'
  <2>1. planned' \in [Proc -> 0..LeaseDuration]
    BY PlannedLemma DEF Types, RefreshLock, LockAgentRunRowForUpdate
  <2>2. pc' \in [Proc -> Waiting \union Holding \union Unlocked]
    BY DEF Types, RefreshLock, LockAgentRunRowForUpdate, Goto, Waiting, Holding, Unlocked
  <2>3. myGeneration' \in [Proc -> Nat] /\ myAttempt' \in [Proc -> Nat]
    BY DEF Types, RefreshLock, LockAgentRunRowForUpdate
  <2>4. rowLock' \in Proc \union {NoOne} /\ superseded' \in SUBSET Proc /\ crashes' \in 0..MaxCrashes
    BY ConstantsAssumption DEF Types, RefreshLock, LockAgentRunRowForUpdate, row, outputs
  <2> QED BY <1>1, <2>1, <2>2, <2>3, <2>4 DEF Types, DataVars
<1>3. DataInv'
  BY <1>1, DataUnchanged DEF IndInv, DataInv
<1>4. LockDiscipline'
  BY ConstantsAssumption DEF IndInv, LockDiscipline, RefreshLock, LockAgentRunRowForUpdate, Goto, Types, Holding
<1>5. LockedFacts'
  BY ConstantsAssumption DEF IndInv, LockDiscipline, LockedFacts, RefreshLock, LockAgentRunRowForUpdate, Goto, Types, row,
     Holding, Acquirable, Reclaimable, LeaseIsExpired, Current, TokenLabels
<1>6. TokenFacts'
  BY DEF IndInv, TokenFacts, TokenFact, RefreshLock, LockAgentRunRowForUpdate, Goto, Types, row, LeaseIsExpired, Current, TokenLabels
<1>7. LostFacts'
  BY DEF IndInv, LostFacts, RefreshLock, LockAgentRunRowForUpdate, Goto, Types, row, Current, TokenLabels
<1> QED BY <1>2, <1>3, <1>4, <1>5, <1>6, <1>7 DEF IndInv, DataInv

\* A retry is authorised or refused.
LEMMA RefreshUpdateStep ==
    ASSUME Types, IndInv, NEW p \in Proc, RefreshUpdate(p)
    PROVE  Types' /\ IndInv'
<1>1. UNCHANGED DataVars
  BY DEF RefreshUpdate, IsOwner, LeaseIsValid, Forget, DataVars, row, outputs
<1>2. Types'
  <2>1. planned' \in [Proc -> 0..LeaseDuration]
    BY PlannedLemma DEF Types, RefreshUpdate, IsOwner, LeaseIsValid, Forget
  <2>2. pc' \in [Proc -> Waiting \union Holding \union Unlocked]
    BY DEF Types, RefreshUpdate, IsOwner, LeaseIsValid, Forget, Goto, Waiting, Holding, Unlocked
  <2>3. myGeneration' \in [Proc -> Nat] /\ myAttempt' \in [Proc -> Nat]
    BY DEF Types, RefreshUpdate, IsOwner, LeaseIsValid, Forget
  <2>4. rowLock' \in Proc \union {NoOne} /\ superseded' \in SUBSET Proc /\ crashes' \in 0..MaxCrashes
    BY ConstantsAssumption DEF Types, RefreshUpdate, IsOwner, LeaseIsValid, Forget, row, outputs
  <2> QED BY <1>1, <2>1, <2>2, <2>3, <2>4 DEF Types, DataVars
<1>3. DataInv'
  BY <1>1, DataUnchanged DEF IndInv, DataInv
<1>4. LockDiscipline'
  BY ConstantsAssumption DEF IndInv, LockDiscipline, RefreshUpdate, IsOwner, LeaseIsValid, Forget, Goto, Types, Holding
<1>5. LockedFacts'
  BY ConstantsAssumption DEF IndInv, LockDiscipline, LockedFacts, RefreshUpdate, IsOwner, LeaseIsValid, Forget, Goto, Types, row,
     Holding, Acquirable, Reclaimable, LeaseIsExpired, Current, TokenLabels
<1>6. TokenFacts'
  <2>1. CASE IsOwner(p)
    BY <2>1 DEF IndInv, TokenFacts, TokenFact, RefreshUpdate, Goto, Types, row, LeaseIsExpired, Current, TokenLabels
  <2>2. CASE ~IsOwner(p)
    <3>1. /\ pc' = [pc EXCEPT ![p] = "reclaim"]
          /\ myGeneration' = [myGeneration EXCEPT ![p] = 0]
          /\ myAttempt' = [myAttempt EXCEPT ![p] = 0]
          /\ UNCHANGED DataVars
      BY <1>1, <2>2 DEF RefreshUpdate, Goto, Forget
    <3>2. \A q \in Proc : pc'[q] \in TokenLabels =>
             pc[q] \in TokenLabels /\ q # p /\ pc'[q] = pc[q]
               /\ myGeneration'[q] = myGeneration[q] /\ myAttempt'[q] = myAttempt[q]
      BY <3>1 DEF Types, TokenLabels
    <3> QED BY <3>1, <3>2 DEF IndInv, TokenFacts, TokenFact, DataVars, LeaseIsExpired, Current
  <2> QED BY <2>1, <2>2
<1>7. LostFacts'
  BY DEF IndInv, LostFacts, RefreshUpdate, IsOwner, LeaseIsValid, Forget, Goto, Types, row, Current, TokenLabels
<1> QED BY <1>2, <1>3, <1>4, <1>5, <1>6, <1>7 DEF IndInv, DataInv

\* Phase C waits for the row.
LEMMA AuthorizeLockStep ==
    ASSUME Types, IndInv, NEW p \in Proc, AuthorizeLock(p)
    PROVE  Types' /\ IndInv'
<1>1. UNCHANGED DataVars
  BY DEF AuthorizeLock, LockAgentRunRowForUpdate, DataVars, row, outputs
<1>2. Types'
  <2>1. planned' \in [Proc -> 0..LeaseDuration]
    BY PlannedLemma DEF Types, AuthorizeLock, LockAgentRunRowForUpdate
  <2>2. pc' \in [Proc -> Waiting \union Holding \union Unlocked]
    BY DEF Types, AuthorizeLock, LockAgentRunRowForUpdate, Goto, Waiting, Holding, Unlocked
  <2>3. myGeneration' \in [Proc -> Nat] /\ myAttempt' \in [Proc -> Nat]
    BY DEF Types, AuthorizeLock, LockAgentRunRowForUpdate
  <2>4. rowLock' \in Proc \union {NoOne} /\ superseded' \in SUBSET Proc /\ crashes' \in 0..MaxCrashes
    BY ConstantsAssumption DEF Types, AuthorizeLock, LockAgentRunRowForUpdate, row, outputs
  <2> QED BY <1>1, <2>1, <2>2, <2>3, <2>4 DEF Types, DataVars
<1>3. DataInv'
  BY <1>1, DataUnchanged DEF IndInv, DataInv
<1>4. LockDiscipline'
  BY ConstantsAssumption DEF IndInv, LockDiscipline, AuthorizeLock, LockAgentRunRowForUpdate, Goto, Types, Holding
<1>5. LockedFacts'
  BY ConstantsAssumption DEF IndInv, LockDiscipline, LockedFacts, AuthorizeLock, LockAgentRunRowForUpdate, Goto, Types, row,
     Holding, Acquirable, Reclaimable, LeaseIsExpired, Current, TokenLabels
<1>6. TokenFacts'
  BY DEF IndInv, TokenFacts, TokenFact, AuthorizeLock, LockAgentRunRowForUpdate, Goto, Types, row, LeaseIsExpired, Current, TokenLabels
<1>7. LostFacts'
  BY DEF IndInv, LostFacts, AuthorizeLock, LockAgentRunRowForUpdate, Goto, Types, row, Current, TokenLabels
<1> QED BY <1>2, <1>3, <1>4, <1>5, <1>6, <1>7 DEF IndInv, DataInv

\* Phase C is authorised or refused.
LEMMA AuthorizeUpdateStep ==
    ASSUME Types, IndInv, NEW p \in Proc, AuthorizeUpdate(p)
    PROVE  Types' /\ IndInv'
<1>1. UNCHANGED DataVars
  BY DEF AuthorizeUpdate, IsOwner, LeaseIsValid, DataVars, row, outputs
<1>2. Types'
  <2>1. planned' \in [Proc -> 0..LeaseDuration]
    BY PlannedLemma DEF Types, AuthorizeUpdate, IsOwner, LeaseIsValid
  <2>2. pc' \in [Proc -> Waiting \union Holding \union Unlocked]
    BY DEF Types, AuthorizeUpdate, IsOwner, LeaseIsValid, Goto, Waiting, Holding, Unlocked
  <2>3. myGeneration' \in [Proc -> Nat] /\ myAttempt' \in [Proc -> Nat]
    BY DEF Types, AuthorizeUpdate, IsOwner, LeaseIsValid
  <2>4. rowLock' \in Proc \union {NoOne} /\ superseded' \in SUBSET Proc /\ crashes' \in 0..MaxCrashes
    BY ConstantsAssumption DEF Types, AuthorizeUpdate, IsOwner, LeaseIsValid, row, outputs
  <2> QED BY <1>1, <2>1, <2>2, <2>3, <2>4 DEF Types, DataVars
<1>3. DataInv'
  BY <1>1, DataUnchanged DEF IndInv, DataInv
<1>4. LockDiscipline'
  BY ConstantsAssumption DEF IndInv, LockDiscipline, AuthorizeUpdate, IsOwner, LeaseIsValid, Goto, Types, Holding
<1>5. LockedFacts'
  BY ConstantsAssumption DEF IndInv, LockDiscipline, LockedFacts, AuthorizeUpdate, IsOwner, LeaseIsValid, Goto, Types, row,
     Holding, Acquirable, Reclaimable, LeaseIsExpired, Current, TokenLabels
<1>6. TokenFacts'
  BY DEF IndInv, TokenFacts, TokenFact, AuthorizeUpdate, IsOwner, LeaseIsValid, Goto, Types, row, LeaseIsExpired, Current, TokenLabels
<1>7. LostFacts'
  BY DEF IndInv, LostFacts, AuthorizeUpdate, IsOwner, LeaseIsValid, Goto, Types, row, Current, TokenLabels
<1> QED BY <1>2, <1>3, <1>4, <1>5, <1>6, <1>7 DEF IndInv, DataInv

\* The transition is rejected.
LEMMA FinalizeRejectStep ==
    ASSUME Types, IndInv, NEW p \in Proc, FinalizeReject(p)
    PROVE  Types' /\ IndInv'
<1>1. UNCHANGED DataVars
  BY DEF FinalizeReject, DataVars, row, outputs
<1>2. Types'
  <2>1. planned' \in [Proc -> 0..LeaseDuration]
    BY PlannedLemma DEF Types, FinalizeReject
  <2>2. pc' \in [Proc -> Waiting \union Holding \union Unlocked]
    BY DEF Types, FinalizeReject, Goto, Waiting, Holding, Unlocked
  <2>3. myGeneration' \in [Proc -> Nat] /\ myAttempt' \in [Proc -> Nat]
    BY DEF Types, FinalizeReject
  <2>4. rowLock' \in Proc \union {NoOne} /\ superseded' \in SUBSET Proc /\ crashes' \in 0..MaxCrashes
    BY ConstantsAssumption DEF Types, FinalizeReject, row, outputs
  <2> QED BY <1>1, <2>1, <2>2, <2>3, <2>4 DEF Types, DataVars
<1>3. DataInv'
  BY <1>1, DataUnchanged DEF IndInv, DataInv
<1>4. LockDiscipline'
  BY ConstantsAssumption DEF IndInv, LockDiscipline, FinalizeReject, Goto, Types, Holding
<1>5. LockedFacts'
  BY ConstantsAssumption DEF IndInv, LockDiscipline, LockedFacts, FinalizeReject, Goto, Types, row,
     Holding, Acquirable, Reclaimable, LeaseIsExpired, Current, TokenLabels
<1>6. TokenFacts'
  BY DEF IndInv, TokenFacts, TokenFact, FinalizeReject, Goto, Types, row, LeaseIsExpired, Current, TokenLabels
<1>7. LostFacts'
  BY DEF IndInv, LostFacts, FinalizeReject, Goto, Types, row, Current, TokenLabels
<1> QED BY <1>2, <1>3, <1>4, <1>5, <1>6, <1>7 DEF IndInv, DataInv

\* A process dies.
LEMMA CrashStep ==
    ASSUME Types, IndInv, NEW p \in Proc, Crash(p)
    PROVE  Types' /\ IndInv'
<1>1. UNCHANGED DataVars
  BY DEF Crash, Forget, DataVars, row, outputs
<1>2. Types'
  <2>1. planned' \in [Proc -> 0..LeaseDuration]
    BY PlannedLemma DEF Types, Crash, Forget
  <2>2. pc' \in [Proc -> Waiting \union Holding \union Unlocked]
    BY DEF Types, Crash, Forget, Goto, Waiting, Holding, Unlocked
  <2>3. myGeneration' \in [Proc -> Nat] /\ myAttempt' \in [Proc -> Nat]
    BY DEF Types, Crash, Forget
  <2>4. rowLock' \in Proc \union {NoOne} /\ superseded' \in SUBSET Proc /\ crashes' \in 0..MaxCrashes
    BY ConstantsAssumption DEF Types, Crash, Forget, row, outputs
  <2> QED BY <1>1, <2>1, <2>2, <2>3, <2>4 DEF Types, DataVars
<1>3. DataInv'
  BY <1>1, DataUnchanged DEF IndInv, DataInv
<1>4. LockDiscipline'
  BY ConstantsAssumption DEF IndInv, LockDiscipline, Crash, Forget, Goto, Types, Holding
<1>5. LockedFacts'
  BY ConstantsAssumption DEF IndInv, LockDiscipline, LockedFacts, Crash, Forget, Goto, Types, row,
     Holding, Acquirable, Reclaimable, LeaseIsExpired, Current, TokenLabels
<1>6. TokenFacts'
  BY DEF IndInv, TokenFacts, TokenFact, Crash, Forget, Goto, Types, row, LeaseIsExpired, Current, TokenLabels
<1>7. LostFacts'
  BY DEF IndInv, LostFacts, Crash, Forget, Goto, Types, row, Current, TokenLabels
<1> QED BY <1>2, <1>3, <1>4, <1>5, <1>6, <1>7 DEF IndInv, DataInv

\* A caller is answered with the status of the run.
LEMMA AnswerStep ==
    ASSUME Types, IndInv, NEW p \in Proc, Answer(p)
    PROVE  Types' /\ IndInv'
<1>1. UNCHANGED <<status, claimedBy, lease, generation, attempts, content, version,
                  transitions, audit>>
  BY DEF Answer, row, outputs
<1>2. Types'
  <2>1. pc' \in [Proc -> Waiting \union Holding \union Unlocked]
    BY DEF Types, Answer, Goto, Unlocked
  <2> QED BY <1>1, <2>1 DEF Types, Answer
<1>3. AnswersAgree'
  BY <1>1 DEF IndInv, AnswersAgree, Answer
<1>4. DataInv'
  BY <1>1, <1>3 DEF IndInv, DataInv, StartFacts, FreshFacts, FinalisationAtomic,
     PublishedUnderCurrentToken, OneTransition, OpenAttemptIsCurrent, AttemptBudget,
     FailedMeansExhausted, ClaimLostIsTrue, LeaseIsExpired
<1>5. LockDiscipline'
  BY DEF IndInv, LockDiscipline, Answer, Goto, Types, Holding
<1>6. LockedFacts'
  BY <1>1 DEF IndInv, LockedFacts, Answer, Goto, Types, Acquirable, Reclaimable,
     LeaseIsExpired, Current, TokenLabels
<1>7. TokenFacts'
  BY <1>1 DEF IndInv, TokenFacts, TokenFact, Answer, Goto, Types, LeaseIsExpired, Current, TokenLabels
<1>8. LostFacts'
  BY <1>1 DEF IndInv, LostFacts, Answer, Goto, Types, Current, TokenLabels
<1> QED BY <1>2, <1>4, <1>5, <1>6, <1>7, <1>8 DEF IndInv, DataInv

\* The clock advances: an expired lease stays expired.
LEMMA TickStep ==
    ASSUME Types, IndInv, Tick
    PROVE  Types' /\ IndInv'
<1>1. UNCHANGED <<status, claimedBy, generation, attempts, content, version, transitions,
                  audit, answers, rowLock, superseded, pc, myGeneration, myAttempt, crashes>>
  BY DEF Tick, outputs
<1>2. lease' \in 0..LeaseDuration /\ (LeaseIsExpired => LeaseIsExpired')
  BY ConstantsAssumption DEF Types, Tick, LeaseIsExpired
<1>3. planned' \in [Proc -> 0..LeaseDuration]
  BY ConstantsAssumption DEF Types, Tick
<1>4. Types'
  BY <1>1, <1>2, <1>3 DEF Types
<1>5. DataInv'
  BY <1>1, <1>2 DEF IndInv, DataInv, StartFacts, FreshFacts, FinalisationAtomic,
     PublishedUnderCurrentToken, OneTransition, OpenAttemptIsCurrent, AttemptBudget,
     FailedMeansExhausted, ClaimLostIsTrue, AnswersAgree
<1>6. LockDiscipline' /\ LostFacts'
  BY <1>1 DEF IndInv, LockDiscipline, LostFacts, Current
<1>7. LockedFacts'
  BY <1>1, <1>2 DEF IndInv, LockedFacts, Acquirable, Reclaimable, Current
<1>8. TokenFacts'
  BY <1>1, <1>2 DEF IndInv, TokenFacts, TokenFact, Current
<1> QED BY <1>4, <1>5, <1>6, <1>7, <1>8 DEF IndInv, DataInv

\* Another request moves the target version.
LEMMA ExternalTransitionStep ==
    ASSUME Types, IndInv, ExternalTransition
    PROVE  Types' /\ IndInv'
<1>1. UNCHANGED <<status, claimedBy, lease, generation, attempts, content, audit, answers,
                  rowLock, superseded, pc, myGeneration, myAttempt, planned, crashes>>
  BY DEF ExternalTransition, row, locals
<1>2. Types'
  BY <1>1 DEF Types, ExternalTransition
<1>3. FinalisationAtomic' /\ OneTransition'
  BY <1>1 DEF IndInv, FinalisationAtomic, OneTransition, ExternalTransition, Types
<1>4. DataInv'
  BY <1>1, <1>3 DEF IndInv, DataInv, StartFacts, FreshFacts, PublishedUnderCurrentToken,
     OpenAttemptIsCurrent, AttemptBudget, FailedMeansExhausted, ClaimLostIsTrue, AnswersAgree,
     LeaseIsExpired
<1>5. LockDiscipline' /\ LockedFacts' /\ LostFacts'
  BY <1>1 DEF IndInv, LockDiscipline, LockedFacts, LostFacts, Acquirable, Reclaimable,
     LeaseIsExpired, Current
<1>6. TokenFacts'
  BY <1>1 DEF IndInv, TokenFacts, TokenFact, LeaseIsExpired, Current
<1> QED BY <1>2, <1>4, <1>5, <1>6 DEF IndInv, DataInv

\* Closing one's own attempt without success disturbs nothing that is said of the rows,
\* if CLAIM_LOST is written by one who has lost the lease.
LEMMA CloseOwnLemma ==
    ASSUME Types, IndInv, NEW p \in Proc, pc[p] \in TokenLabels,
           NEW o \in Outcomes \ {"open", "SUCCESS"},
           attempts' = CloseAttempt(attempts, myAttempt[p], o),
           o = "CLAIM_LOST" => pc[p] = "closeLost",
           UNCHANGED <<status, claimedBy, lease, generation, content, version, transitions,
                       audit, answers>>
    PROVE  /\ attempts' \in Seq(Attempt)
           /\ Len(attempts') = Len(attempts)
           /\ \A i \in DOMAIN attempts :
                /\ attempts'[i].number = attempts[i].number
                /\ attempts'[i].generation = attempts[i].generation
                /\ attempts'[i].outcome =
                     IF i = myAttempt[p] /\ attempts[i].outcome = "open"
                     THEN o ELSE attempts[i].outcome
           /\ DataInv'
<1>1. myAttempt[p] \in DOMAIN attempts /\ attempts \in Seq(Attempt) /\ o \in Outcomes
  BY DEF Types, IndInv, TokenFacts, TokenFact
<1>2. /\ attempts' \in Seq(Attempt)
      /\ Len(attempts') = Len(attempts)
      /\ \A i \in DOMAIN attempts :
           /\ attempts'[i].number = attempts[i].number
           /\ attempts'[i].generation = attempts[i].generation
           /\ attempts'[i].outcome =
                IF i = myAttempt[p] /\ attempts[i].outcome = "open"
                THEN o ELSE attempts[i].outcome
  BY <1>1, CloseAttemptLemma
<1>3. DOMAIN attempts' = DOMAIN attempts
  BY <1>1, <1>2
<1>4. StartFacts' /\ FreshFacts'
  BY <1>1, <1>2 DEF IndInv, StartFacts, FreshFacts
<1>5. FinalisationAtomic'
  <2>1. \A i \in DOMAIN attempts :
           attempts'[i].outcome = "SUCCESS" <=> attempts[i].outcome = "SUCCESS"
    BY <1>2
  <2> QED BY <1>3, <2>1 DEF IndInv, FinalisationAtomic
<1>6. PublishedUnderCurrentToken'
  <2>1. content # 0 => content \in DOMAIN attempts
    BY DEF IndInv, FinalisationAtomic
  <2> QED BY <1>2, <2>1 DEF IndInv, PublishedUnderCurrentToken
<1>7. OneTransition' /\ AnswersAgree'
  BY DEF IndInv, OneTransition, AnswersAgree
<1>8. OpenAttemptIsCurrent'
  BY <1>2, <1>3 DEF IndInv, OpenAttemptIsCurrent
<1>9. AttemptBudget'
  BY <1>2, <1>3 DEF IndInv, AttemptBudget
<1>10. FailedMeansExhausted'
  BY <1>2, <1>3 DEF IndInv, FailedMeansExhausted
<1>11. ClaimLostIsTrue'
  <2> SUFFICES ASSUME NEW i \in DOMAIN attempts, attempts'[i].outcome = "CLAIM_LOST"
               PROVE  attempts[i].generation < generation
                        \/ (status = "IN_PROGRESS" /\ LeaseIsExpired)
    BY <1>2, <1>3 DEF ClaimLostIsTrue, LeaseIsExpired
  <2>1. CASE attempts[i].outcome = "CLAIM_LOST"
    BY <2>1 DEF IndInv, ClaimLostIsTrue
  <2>2. CASE attempts[i].outcome # "CLAIM_LOST"
    <3>1. i = myAttempt[p] /\ pc[p] = "closeLost"
      BY <1>2, <2>2
    <3>2. attempts[i].generation = myGeneration[p] /\ myGeneration[p] <= generation
          /\ myGeneration[p] \in Nat /\ generation \in Nat
      BY <3>1 DEF IndInv, TokenFacts, TokenFact, Types
    <3>3. CASE myGeneration[p] < generation
      BY <3>2, <3>3
    <3>4. CASE myGeneration[p] = generation
      BY <3>1, <3>4 DEF IndInv, TokenFacts, TokenFact, Current
    <3> QED BY <3>2, <3>3, <3>4
  <2> QED BY <2>1, <2>2
<1> QED BY <1>2, <1>4, <1>5, <1>6, <1>7, <1>8, <1>9, <1>10, <1>11 DEF DataInv

\* The call fails and its attempt is closed.
LEMMA CallFailsStep ==
    ASSUME Types, IndInv, NEW p \in Proc, CallFails(p)
    PROVE  Types' /\ IndInv'
<1>1. PICK o \in {"TECHNICAL_FAILURE", "INVALID_OUTPUT"} :
         attempts' = CloseAttempt(attempts, myAttempt[p], o)
  BY DEF CallFails
<1>2. UNCHANGED <<status, claimedBy, lease, generation, content, version, transitions, audit,
                  answers, rowLock, superseded, myGeneration, myAttempt, planned, crashes>>
  BY DEF CallFails, row, outputs
<1>3. pc[p] = "call" /\ pc' = [pc EXCEPT ![p] = "refresh"]
  BY DEF CallFails, Goto
<1>4. /\ attempts' \in Seq(Attempt)
      /\ Len(attempts') = Len(attempts)
      /\ \A i \in DOMAIN attempts :
           /\ attempts'[i].number = attempts[i].number
           /\ attempts'[i].generation = attempts[i].generation
           /\ attempts'[i].outcome =
                IF i = myAttempt[p] /\ attempts[i].outcome = "open"
                THEN o ELSE attempts[i].outcome
      /\ DataInv'
  BY <1>1, <1>2, <1>3, CloseOwnLemma DEF TokenLabels, Outcomes
<1>5. DOMAIN attempts' = DOMAIN attempts
  BY <1>4 DEF Types
<1>6. Types'
  <2>1. pc' \in [Proc -> Waiting \union Holding \union Unlocked]
    BY <1>3 DEF Types, Unlocked
  <2> QED BY <1>2, <1>4, <2>1 DEF Types
<1>7. LockDiscipline'
  BY <1>2, <1>3 DEF IndInv, LockDiscipline, Types, Holding
<1>8. LockedFacts'
  BY <1>2, <1>3 DEF IndInv, LockedFacts, Types, Acquirable, Reclaimable, LeaseIsExpired,
     Current, TokenLabels
<1>9. TokenFacts'
  <2> SUFFICES ASSUME NEW q \in Proc PROVE TokenFact(q)'
    BY DEF TokenFacts
  <2>1. CASE q = p
    BY <1>2, <1>3, <1>4, <1>5, <2>1
       DEF IndInv, TokenFacts, TokenFact, Types, Current, TokenLabels, LeaseIsExpired
  <2>2. CASE q # p /\ pc[q] \in TokenLabels
    <3>1. myAttempt[q] # myAttempt[p] /\ myAttempt[q] \in DOMAIN attempts
      BY <1>3, <2>2 DEF IndInv, TokenFacts, TokenFact, TokenLabels
    <3>2. attempts'[myAttempt[q]].outcome = attempts[myAttempt[q]].outcome
          /\ attempts'[myAttempt[q]].generation = attempts[myAttempt[q]].generation
      BY <1>4, <3>1
    <3> QED
      BY <1>2, <1>3, <1>4, <1>5, <2>2, <3>1, <3>2
         DEF IndInv, TokenFacts, TokenFact, Types, Current, TokenLabels, LeaseIsExpired
  <2>3. CASE q # p /\ pc[q] \notin TokenLabels
    BY <1>3, <2>3 DEF TokenFact, Types
  <2> QED BY <2>1, <2>2, <2>3
<1>10. LostFacts'
  BY <1>2, <1>3, <1>4, <1>5 DEF IndInv, LostFacts, Types, Current, TokenLabels
<1> QED BY <1>4, <1>6, <1>7, <1>8, <1>9, <1>10 DEF IndInv, DataInv

\* An attempt is closed after Phase C was refused or rolled back.
LEMMA CloseAfterRollbackStep ==
    ASSUME Types, IndInv, NEW p \in Proc, CloseAfterRollback(p)
    PROVE  Types' /\ IndInv'
<1>1. PICK o \in {"CLAIM_LOST", "TECHNICAL_FAILURE"} :
         /\ attempts' = CloseAttempt(attempts, myAttempt[p], o)
         /\ o = "CLAIM_LOST" => pc[p] = "closeLost"
  BY DEF CloseAfterRollback
<1>2. UNCHANGED <<status, claimedBy, lease, generation, content, version, transitions, audit,
                  answers, rowLock, superseded, planned, crashes>>
  BY DEF CloseAfterRollback, row, outputs
<1>3. /\ pc[p] \in {"closeLost", "closeRejected"} /\ pc' = [pc EXCEPT ![p] = "poll"]
      /\ myGeneration' = [myGeneration EXCEPT ![p] = 0]
      /\ myAttempt' = [myAttempt EXCEPT ![p] = 0]
  BY DEF CloseAfterRollback, Goto, Forget
<1>4. /\ attempts' \in Seq(Attempt)
      /\ Len(attempts') = Len(attempts)
      /\ \A i \in DOMAIN attempts :
           /\ attempts'[i].number = attempts[i].number
           /\ attempts'[i].generation = attempts[i].generation
           /\ attempts'[i].outcome =
                IF i = myAttempt[p] /\ attempts[i].outcome = "open"
                THEN o ELSE attempts[i].outcome
      /\ DataInv'
  BY <1>1, <1>2, <1>3, CloseOwnLemma DEF TokenLabels, Outcomes
<1>5. DOMAIN attempts' = DOMAIN attempts
  BY <1>4 DEF Types
<1>6. Types'
  <2>1. pc' \in [Proc -> Waiting \union Holding \union Unlocked]
    BY <1>3 DEF Types, Unlocked
  <2>2. myGeneration' \in [Proc -> Nat] /\ myAttempt' \in [Proc -> Nat]
    BY <1>3 DEF Types
  <2> QED BY <1>2, <1>4, <2>1, <2>2 DEF Types
<1>7. LockDiscipline'
  BY <1>2, <1>3 DEF IndInv, LockDiscipline, Types, Holding
<1>8. \A q \in Proc : pc'[q] \in TokenLabels =>
         /\ q # p /\ pc[q] \in TokenLabels /\ pc'[q] = pc[q]
         /\ myGeneration'[q] = myGeneration[q] /\ myAttempt'[q] = myAttempt[q]
         /\ Current(q)' <=> Current(q)
         /\ myGeneration[q] # myGeneration[p]
         /\ myAttempt[q] \in DOMAIN attempts
         /\ attempts'[myAttempt[q]].outcome = attempts[myAttempt[q]].outcome
         /\ attempts'[myAttempt[q]].generation = attempts[myAttempt[q]].generation
  <2> SUFFICES ASSUME NEW q \in Proc, pc'[q] \in TokenLabels
               PROVE  /\ q # p /\ pc[q] \in TokenLabels /\ pc'[q] = pc[q]
                      /\ myGeneration'[q] = myGeneration[q] /\ myAttempt'[q] = myAttempt[q]
                      /\ Current(q)' <=> Current(q)
                      /\ myGeneration[q] # myGeneration[p]
                      /\ myAttempt[q] \in DOMAIN attempts
                      /\ attempts'[myAttempt[q]].outcome = attempts[myAttempt[q]].outcome
                      /\ attempts'[myAttempt[q]].generation = attempts[myAttempt[q]].generation
    OBVIOUS
  <2>1. /\ q # p /\ pc[q] \in TokenLabels /\ pc'[q] = pc[q]
        /\ myGeneration'[q] = myGeneration[q] /\ myAttempt'[q] = myAttempt[q]
        /\ Current(q)' <=> Current(q)
    BY <1>2, <1>3 DEF Types, TokenLabels, Current
  <2>2. /\ myGeneration[q] # myGeneration[p]
        /\ myAttempt[q] \in DOMAIN attempts
        /\ myAttempt[q] # myAttempt[p]
    BY <1>3, <2>1 DEF IndInv, TokenFacts, TokenFact, TokenLabels
  <2> QED BY <1>4, <2>1, <2>2
<1>9. LockedFacts'
  BY <1>2, <1>3, <1>8 DEF IndInv, LockedFacts, Types, Acquirable, Reclaimable,
     LeaseIsExpired, Current, TokenLabels
<1>10. TokenFacts'
  <2> SUFFICES ASSUME NEW q \in Proc PROVE TokenFact(q)'
    BY DEF TokenFacts
  <2> QED BY <1>2, <1>4, <1>5, <1>8 DEF IndInv, TokenFacts, TokenFact, LeaseIsExpired
<1>11. LostFacts'
  <2> SUFFICES ASSUME NEW i \in DOMAIN attempts
               PROVE  /\ attempts'[i].generation <= generation'
                      /\ attempts'[i].outcome = "CLAIM_LOST"
                         /\ attempts'[i].generation = generation'
                           => \A q \in Proc : ~Current(q)'
    BY <1>5 DEF LostFacts
  <2>1. attempts'[i].generation <= generation'
    BY <1>2, <1>4 DEF IndInv, LostFacts
  <2>2. ASSUME NEW q \in Proc, Current(q)', attempts'[i].outcome = "CLAIM_LOST",
               attempts'[i].generation = generation'
        PROVE  FALSE
    <3>1. pc'[q] \in TokenLabels /\ Current(q)
      BY <1>8, <2>2 DEF Current
    <3>2. attempts[i].outcome # "CLAIM_LOST"
      BY <1>2, <1>4, <2>2, <3>1 DEF IndInv, LostFacts
    <3>3. i = myAttempt[p] /\ attempts[i].generation = generation
      BY <1>2, <1>4, <2>2, <3>2
    <3>4. myGeneration[p] = generation
      BY <1>3, <3>3 DEF IndInv, TokenFacts, TokenFact, TokenLabels
    <3> QED BY <1>8, <3>1, <3>4 DEF Current
  <2> QED BY <2>1, <2>2
<1> QED BY <1>4, <1>6, <1>7, <1>9, <1>10, <1>11 DEF IndInv, DataInv

\* After a commit nobody is inside a locking transaction and every waiting UPDATE will
\* look at the row again.
LEMMA CommitLemma ==
    ASSUME Types, IndInv, NEW p \in Proc, pc[p] \in Holding,
           NEW l \in Unlocked, pc' = [pc EXCEPT ![p] = l], CommitRow
    PROVE  /\ \A q \in Proc : q # p => pc[q] \notin Holding /\ pc'[q] = pc[q]
           /\ pc'[p] = l
           /\ LockDiscipline' /\ LockedFacts'
           /\ pc' \in [Proc -> Waiting \union Holding \union Unlocked]
           /\ rowLock' \in Proc \union {NoOne}
           /\ superseded' \in SUBSET Proc
<1>1. rowLock = p /\ \A q \in Proc : q # p => pc[q] \notin Holding
  BY ConstantsAssumption DEF IndInv, LockDiscipline
<1>2. pc' \in [Proc -> Waiting \union Holding \union Unlocked] /\ pc'[p] = l
  BY DEF Types
<1>3. \A q \in Proc : q # p => pc'[q] = pc[q]
  BY DEF Types
<1>4. l \notin Holding /\ l \notin Waiting
  BY DEF Holding, Waiting, Unlocked
<1>5. \A q \in Proc : pc'[q] \notin Holding
  BY <1>1, <1>2, <1>3, <1>4
<1>6. LockDiscipline'
  BY <1>5, ConstantsAssumption DEF LockDiscipline, CommitRow
<1>7. \A q \in Proc : pc'[q] \in Waiting => q \in superseded'
  BY <1>2, <1>3, <1>4 DEF CommitRow, Waiters
<1>8. LockedFacts'
  BY <1>5, <1>7 DEF LockedFacts, Holding, Waiting
<1>9. rowLock' \in Proc \union {NoOne} /\ superseded' \in SUBSET Proc
  BY DEF Types, CommitRow, Waiters
<1> QED BY <1>1, <1>2, <1>3, <1>6, <1>8, <1>9

\* acquire_and_create_first_attempt commits.
LEMMA AcquireCommitStep ==
    ASSUME Types, IndInv, NEW p \in Proc, AcquireCommit(p)
    PROVE  Types' /\ IndInv'
<1>1. /\ status = "PENDING" /\ generation = 0 /\ attempts = << >> /\ answers = {}
      /\ planned[p] \in 0..LeaseDuration
  BY DEF AcquireCommit, IndInv, LockedFacts, Acquirable, FreshFacts, StartFacts, AnswersAgree,
         Types, Terminal
<1>2. /\ status' = "IN_PROGRESS" /\ generation' = 1 /\ claimedBy' = WorkerId[p]
      /\ lease' = planned[p]
      /\ attempts' = <<[number |-> 1, generation |-> 1, outcome |-> "open"]>>
      /\ planned' = [planned EXCEPT ![p] = 0]
      /\ myGeneration' = [myGeneration EXCEPT ![p] = 1]
      /\ myAttempt' = [myAttempt EXCEPT ![p] = 1]
      /\ UNCHANGED <<content, version, transitions, audit, answers, crashes>>
  BY <1>1 DEF AcquireCommit, CreateAttempt, outputs
<1>3. /\ \A q \in Proc : q # p => pc[q] \notin Holding /\ pc'[q] = pc[q]
      /\ pc'[p] = "call"
      /\ LockDiscipline' /\ LockedFacts'
      /\ pc' \in [Proc -> Waiting \union Holding \union Unlocked]
      /\ rowLock' \in Proc \union {NoOne}
      /\ superseded' \in SUBSET Proc
  BY CommitLemma DEF AcquireCommit, Goto, Holding, Unlocked
<1>4. /\ attempts' \in Seq(Attempt) /\ Len(attempts') = 1 /\ DOMAIN attempts' = {1}
      /\ attempts'[1].number = 1 /\ attempts'[1].generation = 1
      /\ attempts'[1].outcome = "open"
  BY <1>2 DEF Attempt, Outcomes
<1>5. Types'
  <2>1. planned' \in [Proc -> 0..LeaseDuration]
    BY <1>2, PlannedLemma DEF Types
  <2>2. myGeneration' \in [Proc -> Nat] /\ myAttempt' \in [Proc -> Nat]
    BY <1>2 DEF Types
  <2>3. generation' \in Nat /\ status' \in Statuses
    BY <1>2 DEF Statuses
  <2> QED BY <1>1, <1>2, <1>3, <1>4, <2>1, <2>2, <2>3 DEF Types
<1>6. \A q \in Proc : pc[q] \notin TokenLabels
  BY <1>1 DEF IndInv, TokenFacts, TokenFact
<1>7. TokenFacts' /\ LostFacts'
  BY <1>2, <1>3, <1>4, <1>6 DEF TokenFacts, TokenFact, LostFacts, Current, Types, TokenLabels
<1>8. DataInv'
  <2>1. StartFacts' /\ FreshFacts'
    BY <1>2, <1>4 DEF StartFacts, FreshFacts
  <2>2. content = 0 /\ audit = {} /\ "producer" \notin transitions
    BY <1>1 DEF IndInv, FinalisationAtomic
  <2>3. FinalisationAtomic' /\ PublishedUnderCurrentToken' /\ OneTransition'
    BY <1>2, <1>4, <2>2 DEF IndInv, FinalisationAtomic, PublishedUnderCurrentToken,
       OneTransition
  <2>4. OpenAttemptIsCurrent' /\ FailedMeansExhausted' /\ ClaimLostIsTrue' /\ AnswersAgree'
    BY <1>1, <1>2, <1>4 DEF OpenAttemptIsCurrent, FailedMeansExhausted, ClaimLostIsTrue,
       AnswersAgree
  <2>5. AttemptBudget'
    BY <1>4, ConstantsAssumption DEF AttemptBudget
  <2> QED BY <2>1, <2>3, <2>4, <2>5 DEF DataInv
<1> QED BY <1>3, <1>5, <1>7, <1>8 DEF IndInv, DataInv

\* reclaim_and_create_attempt and refresh_and_create_retry_attempt, from the attempts all
\* closed, under a token that nobody else has: the run gets its next attempt, or ends.
LEMMA CreateNextAttemptLemma ==
    ASSUME Types, IndInv, NEW p \in Proc, pc[p] \in Holding, CommitRow,
           status = "IN_PROGRESS",
           NEW g \in Nat, generation <= g,
           NEW h \in Seq(Attempt), Len(h) = Len(attempts),
           \A i \in DOMAIN attempts :
              /\ h[i].number = attempts[i].number
              /\ h[i].generation = attempts[i].generation
              /\ h[i].outcome \notin {"open", "SUCCESS"}
              /\ h[i].outcome = "CLAIM_LOST" => h[i].generation < g,
           \A q \in Proc : q # p /\ pc[q] \in TokenLabels => myGeneration[q] # g,
           CreateNextAttempt(p, g, h),
           generation' = g, claimedBy' = WorkerId[p],
           lease' \in 0..LeaseDuration, planned' \in [Proc -> 0..LeaseDuration],
           UNCHANGED <<content, version, transitions, audit, answers, crashes>>
    PROVE  Types' /\ IndInv'
<1>1. /\ \A i \in DOMAIN h : h[i].number = i /\ h[i].generation <= g
      /\ \A i \in DOMAIN attempts : i \in DOMAIN h
      /\ DOMAIN h = 1..Len(h) /\ Len(h) \in Nat /\ Len(h) # 0
  <2>1. DOMAIN h = DOMAIN attempts /\ DOMAIN h = 1..Len(h) /\ Len(h) \in Nat
    BY DEF Types
  <2>2. Len(h) # 0
    BY DEF IndInv, StartFacts, Types
  <2>3. \A i \in DOMAIN h : h[i].number = i /\ h[i].generation <= g
    <3> SUFFICES ASSUME NEW i \in DOMAIN h PROVE h[i].number = i /\ h[i].generation <= g
      OBVIOUS
    <3>1. h[i].number = i /\ h[i].generation <= generation
      BY <2>1 DEF IndInv, AttemptBudget, LostFacts
    <3>2. h[i].generation \in Nat /\ generation \in Nat
      BY AttemptLemma DEF Types
    <3> QED BY <3>1, <3>2
  <2> QED BY <2>1, <2>2, <2>3
<1>2. NextAttemptNumber(h) = Len(h) + 1
  BY <1>1, NextAttemptNumberLemma
<1>3. content = 0 /\ audit = {} /\ "producer" \notin transitions /\ answers = {}
  BY DEF IndInv, FinalisationAtomic, AnswersAgree, Types, Terminal
<1>4. \A q \in Proc : pc[q] \in TokenLabels =>
         /\ myAttempt[q] \in DOMAIN h
         /\ h[myAttempt[q]].generation = myGeneration[q]
         /\ myGeneration[q] <= g
         /\ \A r \in Proc : pc[r] \in TokenLabels /\ myGeneration[r] = myGeneration[q] => r = q
  <2> SUFFICES ASSUME NEW q \in Proc, pc[q] \in TokenLabels
               PROVE  /\ myAttempt[q] \in DOMAIN h
                      /\ h[myAttempt[q]].generation = myGeneration[q]
                      /\ myGeneration[q] <= g
                      /\ \A r \in Proc : pc[r] \in TokenLabels
                            /\ myGeneration[r] = myGeneration[q] => r = q
    OBVIOUS
  <2>1. /\ myGeneration[q] <= generation
        /\ myAttempt[q] \in DOMAIN attempts
        /\ attempts[myAttempt[q]].generation = myGeneration[q]
        /\ \A r \in Proc : pc[r] \in TokenLabels /\ myGeneration[r] = myGeneration[q] => r = q
    BY DEF IndInv, TokenFacts, TokenFact
  <2>2. myGeneration[q] \in Nat /\ generation \in Nat
    BY DEF Types
  <2> QED BY <1>1, <2>1, <2>2
<1>5. CASE NextAttemptNumber(h) > MaxAttempts
  <2>1. /\ status' \in {"FAILED", "IN_PROGRESS"} /\ attempts' = h
        /\ pc' = [pc EXCEPT ![p] = "exhausted"]
        /\ myGeneration' = [myGeneration EXCEPT ![p] = 0]
        /\ myAttempt' = [myAttempt EXCEPT ![p] = 0]
    BY <1>2, <1>5, ConstantsAssumption
       DEF CreateNextAttempt, MarkFailedIfOwner, Goto, Forget
  <2>2. /\ \A q \in Proc : q # p => pc'[q] = pc[q]
        /\ pc'[p] = "exhausted"
        /\ LockDiscipline' /\ LockedFacts'
        /\ pc' \in [Proc -> Waiting \union Holding \union Unlocked]
        /\ rowLock' \in Proc \union {NoOne}
        /\ superseded' \in SUBSET Proc
    BY <2>1, CommitLemma DEF Unlocked
  <2>3. Types'
    <3>1. myGeneration' \in [Proc -> Nat] /\ myAttempt' \in [Proc -> Nat]
      BY <2>1 DEF Types
    <3> QED BY <2>1, <2>2, <3>1 DEF Types, Statuses, Terminal
  <2>4. \A q \in Proc : pc'[q] \in TokenLabels =>
           /\ q # p /\ pc[q] \in TokenLabels
           /\ myGeneration'[q] = myGeneration[q] /\ myAttempt'[q] = myAttempt[q]
           /\ ~Current(q)'
    BY <2>1, <2>2 DEF Types, TokenLabels, Current
  <2>5. TokenFacts'
    <3> SUFFICES ASSUME NEW q \in Proc PROVE TokenFact(q)'
      BY DEF TokenFacts
    <3> QED BY <1>4, <2>1, <2>4 DEF TokenFact
  <2>6. LostFacts'
    BY <1>1, <2>1, <2>4 DEF LostFacts, Current
  <2>7. Len(h) <= (IF MaxAttempts = 0 THEN 1 ELSE MaxAttempts) /\ Len(h) >= MaxAttempts
    BY <1>2, <1>5, ConstantsAssumption DEF IndInv, AttemptBudget, Types
  <2>8. DataInv'
    <3>1. StartFacts' /\ FreshFacts' /\ AnswersAgree'
      BY <1>1, <1>3, <2>1 DEF StartFacts, FreshFacts, AnswersAgree
    <3>2. FinalisationAtomic' /\ PublishedUnderCurrentToken' /\ OneTransition'
      BY <1>1, <1>3, <2>1 DEF IndInv, FinalisationAtomic, PublishedUnderCurrentToken,
         OneTransition, Types
    <3>3. OpenAttemptIsCurrent' /\ FailedMeansExhausted' /\ AttemptBudget'
      BY <1>1, <2>1, <2>7 DEF OpenAttemptIsCurrent, FailedMeansExhausted, AttemptBudget, Types
    <3>4. ClaimLostIsTrue'
      BY <1>1, <2>1 DEF ClaimLostIsTrue, Types
    <3> QED BY <3>1, <3>2, <3>3, <3>4 DEF DataInv
  <2> QED BY <2>2, <2>3, <2>5, <2>6, <2>8 DEF IndInv, DataInv
<1>6. CASE NextAttemptNumber(h) <= MaxAttempts
  <2>1. /\ status' = "IN_PROGRESS" /\ attempts' = CreateAttempt(h, Len(h) + 1, g)
        /\ pc' = [pc EXCEPT ![p] = "call"]
        /\ myGeneration' = [myGeneration EXCEPT ![p] = g]
        /\ myAttempt' = [myAttempt EXCEPT ![p] = Len(h) + 1]
    BY <1>1, <1>2, <1>6, ConstantsAssumption DEF CreateNextAttempt, Goto
  <2>2. /\ \A q \in Proc : q # p => pc'[q] = pc[q]
        /\ pc'[p] = "call"
        /\ LockDiscipline' /\ LockedFacts'
        /\ pc' \in [Proc -> Waiting \union Holding \union Unlocked]
        /\ rowLock' \in Proc \union {NoOne}
        /\ superseded' \in SUBSET Proc
    BY <2>1, CommitLemma DEF Unlocked
  <2>3. /\ attempts' \in Seq(Attempt)
        /\ Len(attempts') = Len(h) + 1
        /\ \A i \in DOMAIN h : attempts'[i] = h[i]
        /\ attempts'[Len(h) + 1]
             = [number |-> Len(h) + 1, generation |-> g, outcome |-> "open"]
    BY <1>1, <2>1, CreateAttemptLemma
  <2>4. /\ DOMAIN attempts' = DOMAIN h \union {Len(h) + 1}
        /\ Len(h) + 1 \notin DOMAIN h
    BY <1>1, <2>3
  <2>5. Types'
    <3>1. myGeneration' \in [Proc -> Nat] /\ myAttempt' \in [Proc -> Nat]
      BY <1>1, <2>1 DEF Types
    <3> QED BY <2>1, <2>2, <2>3, <3>1 DEF Types, Statuses
  <2>6. \A q \in Proc : q # p /\ pc'[q] \in TokenLabels =>
           /\ pc[q] \in TokenLabels
           /\ myGeneration'[q] = myGeneration[q] /\ myAttempt'[q] = myAttempt[q]
           /\ myGeneration[q] # g
           /\ ~Current(q)'
    BY <2>1, <2>2 DEF Types, Current
  <2>7. myGeneration'[p] = g /\ myAttempt'[p] = Len(h) + 1
    BY <2>1 DEF Types
  <2>8. TokenFacts'
    <3> SUFFICES ASSUME NEW q \in Proc PROVE TokenFact(q)'
      BY DEF TokenFacts
    <3>1. CASE q = p
      BY <2>1, <2>2, <2>3, <2>4, <2>6, <2>7, <3>1 DEF TokenFact
    <3>2. CASE q # p /\ pc'[q] \in TokenLabels
      <4>1. /\ myGeneration'[q] <= generation' /\ ~Current(q)'
            /\ myAttempt'[q] \in DOMAIN attempts'
            /\ attempts'[myAttempt'[q]].generation = myGeneration'[q]
        BY <1>4, <2>3, <2>4, <2>6, <3>2
      <4>2. \A r \in Proc : pc'[r] \in TokenLabels /\ myGeneration'[r] = myGeneration'[q]
                               => r = q
        BY <1>4, <2>6, <2>7, <3>2
      <4> QED BY <4>1, <4>2 DEF TokenFact
    <3>3. CASE q # p /\ pc'[q] \notin TokenLabels
      BY <3>3 DEF TokenFact
    <3> QED BY <3>1, <3>2, <3>3
  <2>9. LostFacts'
    <3>1. ASSUME NEW i \in DOMAIN h
          PROVE  attempts'[i].generation <= generation'
                   /\ ~(attempts'[i].outcome = "CLAIM_LOST"
                         /\ attempts'[i].generation = generation')
      <4>1. i \in DOMAIN attempts
        BY DEF Types
      <4>2. attempts'[i] = h[i]
        BY <2>3
      <4>3. h[i].generation \in Nat
        BY AttemptLemma
      <4> QED BY <1>1, <4>1, <4>2, <4>3
    <3>2. /\ attempts'[Len(h) + 1].generation <= generation'
          /\ attempts'[Len(h) + 1].outcome = "open"
      BY <2>3
    <3> QED BY <2>4, <3>1, <3>2 DEF LostFacts
  <2>10. DataInv'
    <3>1. StartFacts' /\ FreshFacts' /\ AnswersAgree'
      BY <1>1, <1>3, <2>1, <2>3 DEF StartFacts, FreshFacts, AnswersAgree
    <3>2. FinalisationAtomic' /\ PublishedUnderCurrentToken' /\ OneTransition'
      <4>1. \A i \in DOMAIN attempts' : attempts'[i].outcome # "SUCCESS"
        BY <1>1, <2>3, <2>4 DEF Types
      <4> QED BY <1>3, <2>1, <4>1 DEF IndInv, FinalisationAtomic,
              PublishedUnderCurrentToken, OneTransition
    <3>3. OpenAttemptIsCurrent' /\ FailedMeansExhausted'
      BY <1>1, <2>1, <2>3, <2>4 DEF OpenAttemptIsCurrent, FailedMeansExhausted, Types
    <3>4. AttemptBudget'
      BY <1>1, <1>2, <1>6, <2>3, <2>4, ConstantsAssumption DEF AttemptBudget
    <3>5. ClaimLostIsTrue'
      BY <2>3, <2>4 DEF ClaimLostIsTrue, Types
    <3> QED BY <3>1, <3>2, <3>3, <3>4, <3>5 DEF DataInv
  <2> QED BY <2>2, <2>5, <2>8, <2>9, <2>10 DEF IndInv, DataInv
<1>7. NextAttemptNumber(h) > MaxAttempts \/ NextAttemptNumber(h) <= MaxAttempts
  BY <1>1, <1>2, ConstantsAssumption
<1> QED BY <1>5, <1>6, <1>7

\* reclaim_and_create_attempt commits.
LEMMA ReclaimCommitStep ==
    ASSUME Types, IndInv, NEW p \in Proc, ReclaimCommit(p)
    PROVE  Types' /\ IndInv'
<1>1. /\ status = "IN_PROGRESS" /\ generation \in Nat /\ attempts \in Seq(Attempt)
      /\ planned[p] \in 0..LeaseDuration
  BY DEF ReclaimCommit, IndInv, LockedFacts, Reclaimable, Types
<1>2. /\ CloseAbandoned(attempts) \in Seq(Attempt)
      /\ Len(CloseAbandoned(attempts)) = Len(attempts)
      /\ \A i \in DOMAIN attempts :
           /\ CloseAbandoned(attempts)[i].number = attempts[i].number
           /\ CloseAbandoned(attempts)[i].generation = attempts[i].generation
           /\ CloseAbandoned(attempts)[i].outcome =
                IF attempts[i].outcome = "open" THEN "CLAIM_LOST" ELSE attempts[i].outcome
  BY <1>1, CloseAbandonedLemma
<1>3. \A i \in DOMAIN attempts :
         /\ attempts[i].outcome # "SUCCESS"
         /\ attempts[i].generation < generation + 1
  <2>1. \A i \in DOMAIN attempts : attempts[i].outcome # "SUCCESS"
    BY <1>1 DEF IndInv, FinalisationAtomic
  <2>2. \A i \in DOMAIN attempts :
           attempts[i].generation <= generation /\ attempts[i].generation \in Nat
    BY <1>1, AttemptLemma DEF IndInv, LostFacts
  <2> QED BY <1>1, <2>1, <2>2
<1>4. \A q \in Proc : q # p /\ pc[q] \in TokenLabels => myGeneration[q] # generation + 1
  BY <1>1 DEF IndInv, TokenFacts, TokenFact, Types
<1>5. /\ CreateNextAttempt(p, generation + 1, CloseAbandoned(attempts))
      /\ generation' = generation + 1 /\ claimedBy' = WorkerId[p] /\ lease' = planned[p]
      /\ planned' = [planned EXCEPT ![p] = 0] /\ CommitRow /\ pc[p] \in Holding
      /\ UNCHANGED <<content, version, transitions, audit, answers, crashes>>
  BY DEF ReclaimCommit, outputs, Holding
<1>6. planned' \in [Proc -> 0..LeaseDuration]
  BY <1>5, PlannedLemma DEF Types
<1>7. /\ generation + 1 \in Nat /\ generation <= generation + 1
      /\ lease' \in 0..LeaseDuration
      /\ \A i \in DOMAIN attempts :
           /\ CloseAbandoned(attempts)[i].outcome \notin {"open", "SUCCESS"}
           /\ CloseAbandoned(attempts)[i].generation < generation + 1
  BY <1>1, <1>2, <1>3, <1>5
<1> DEFINE g == generation + 1
           h == CloseAbandoned(attempts)
<1> HIDE DEF g, h
<1>8. /\ CreateNextAttempt(p, g, h) /\ generation' = g /\ g \in Nat /\ generation <= g
      /\ h \in Seq(Attempt) /\ Len(h) = Len(attempts)
      /\ \A i \in DOMAIN attempts :
           /\ h[i].number = attempts[i].number
           /\ h[i].generation = attempts[i].generation
           /\ h[i].outcome \notin {"open", "SUCCESS"}
           /\ h[i].generation < g
      /\ \A q \in Proc : q # p /\ pc[q] \in TokenLabels => myGeneration[q] # g
  BY <1>2, <1>4, <1>5, <1>7 DEF g, h
<1>9. /\ pc[p] \in Holding /\ CommitRow /\ status = "IN_PROGRESS"
      /\ claimedBy' = WorkerId[p] /\ lease' \in 0..LeaseDuration
      /\ planned' \in [Proc -> 0..LeaseDuration]
      /\ UNCHANGED <<content, version, transitions, audit, answers, crashes>>
  BY <1>1, <1>5, <1>6, <1>7
<1> QED BY <1>8, <1>9, CreateNextAttemptLemma

\* refresh_and_create_retry_attempt commits.
LEMMA RefreshCommitStep ==
    ASSUME Types, IndInv, NEW p \in Proc, RefreshCommit(p)
    PROVE  Types' /\ IndInv'
<1>1. /\ Current(p) /\ pc[p] = "refreshCommit"
      /\ status = "IN_PROGRESS" /\ claimedBy = WorkerId[p]
      /\ generation \in Nat /\ attempts \in Seq(Attempt) /\ planned[p] \in 0..LeaseDuration
  BY DEF RefreshCommit, IndInv, LockedFacts, TokenFacts, TokenFact, Current, Types
<1>2. \A q \in Proc : q # p /\ pc[q] \in TokenLabels => myGeneration[q] # generation
  BY <1>1 DEF IndInv, TokenFacts, TokenFact, Current
<1>3. \A i \in DOMAIN attempts : attempts[i].outcome \notin {"open", "SUCCESS"}
  <2>1. \A i \in DOMAIN attempts : attempts[i].outcome # "SUCCESS"
    BY <1>1 DEF IndInv, FinalisationAtomic
  <2>2. myAttempt[p] = Len(attempts) /\ attempts[myAttempt[p]].outcome # "open"
    BY <1>1 DEF IndInv, TokenFacts, TokenFact, Current
  <2> QED BY <2>1, <2>2 DEF IndInv, OpenAttemptIsCurrent
<1>4. \A i \in DOMAIN attempts :
         attempts[i].outcome = "CLAIM_LOST" => attempts[i].generation < generation
  <2>1. \A i \in DOMAIN attempts :
           attempts[i].generation <= generation /\ attempts[i].generation \in Nat
    BY <1>1, AttemptLemma DEF IndInv, LostFacts
  <2>2. \A i \in DOMAIN attempts :
           attempts[i].outcome = "CLAIM_LOST" => attempts[i].generation # generation
    BY <1>1 DEF IndInv, LostFacts
  <2> QED BY <1>1, <2>1, <2>2
<1>5. /\ CreateNextAttempt(p, generation, attempts)
      /\ generation' = generation /\ claimedBy' = WorkerId[p] /\ lease' = planned[p]
      /\ planned' = [planned EXCEPT ![p] = 0] /\ CommitRow /\ pc[p] \in Holding
      /\ UNCHANGED <<content, version, transitions, audit, answers, crashes>>
  BY <1>1 DEF RefreshCommit, outputs, Holding
<1>6. planned' \in [Proc -> 0..LeaseDuration]
  BY <1>5, PlannedLemma DEF Types
<1>7. generation <= generation /\ lease' \in 0..LeaseDuration
  BY <1>1, <1>5
<1> QED BY <1>1, <1>2, <1>3, <1>4, <1>5, <1>6, <1>7, CreateNextAttemptLemma

\* Phase C commits.
LEMMA FinalizeCommitStep ==
    ASSUME Types, IndInv, NEW p \in Proc, FinalizeCommit(p)
    PROVE  Types' /\ IndInv'
<1>1. /\ Current(p) /\ pc[p] = "finalize"
      /\ status = "IN_PROGRESS"
      /\ attempts \in Seq(Attempt)
      /\ myAttempt[p] = Len(attempts) /\ myAttempt[p] \in DOMAIN attempts
      /\ attempts[myAttempt[p]].outcome = "open"
      /\ attempts[myAttempt[p]].generation = generation
      /\ \A q \in Proc : q # p /\ pc[q] \in TokenLabels => myGeneration[q] # generation
  BY DEF FinalizeCommit, IndInv, LockedFacts, TokenFacts, TokenFact, Current, Types
<1>2. /\ status' = "SUCCEEDED" /\ version = "ELIGIBLE_PENDING" /\ version' = "DRAFT"
      /\ content' = myAttempt[p]
      /\ transitions' = transitions \union {"producer"}
      /\ audit' = audit \union {myAttempt[p]}
      /\ attempts' = CloseAttempt(attempts, myAttempt[p], "SUCCESS")
      /\ pc' = [pc EXCEPT ![p] = "poll"]
      /\ myGeneration' = [myGeneration EXCEPT ![p] = 0]
      /\ myAttempt' = [myAttempt EXCEPT ![p] = 0]
      /\ UNCHANGED <<claimedBy, lease, generation, planned, answers, crashes>>
  BY DEF FinalizeCommit, Goto, Forget
<1>3. /\ \A q \in Proc : q # p => pc'[q] = pc[q]
      /\ pc'[p] = "poll"
      /\ LockDiscipline' /\ LockedFacts'
      /\ pc' \in [Proc -> Waiting \union Holding \union Unlocked]
      /\ rowLock' \in Proc \union {NoOne}
      /\ superseded' \in SUBSET Proc
  BY <1>1, <1>2, CommitLemma DEF FinalizeCommit, Holding, Unlocked
<1>4. /\ attempts' \in Seq(Attempt)
      /\ Len(attempts') = Len(attempts)
      /\ \A i \in DOMAIN attempts :
           /\ attempts'[i].number = attempts[i].number
           /\ attempts'[i].generation = attempts[i].generation
           /\ attempts'[i].outcome =
                IF i = myAttempt[p] /\ attempts[i].outcome = "open"
                THEN "SUCCESS" ELSE attempts[i].outcome
  <2>1. "SUCCESS" \in Outcomes
    BY DEF Outcomes
  <2> QED BY <1>1, <1>2, <2>1, CloseAttemptLemma
<1>5. DOMAIN attempts' = DOMAIN attempts /\ DOMAIN attempts = 1..Len(attempts)
  BY <1>1, <1>4
<1>6. content = 0 /\ audit = {} /\ answers = {} /\ transitions = {}
      /\ \A i \in DOMAIN attempts : attempts[i].outcome # "SUCCESS"
  BY <1>1, <1>2 DEF IndInv, FinalisationAtomic, OneTransition, AnswersAgree, Types, Terminal
<1>7. \A i \in DOMAIN attempts : attempts'[i].outcome = "SUCCESS" <=> i = myAttempt[p]
  BY <1>1, <1>4, <1>6
<1>8. myAttempt[p] \in Nat \ {0}
  BY <1>1, <1>5
<1>9. Types'
  <2>1. myGeneration' \in [Proc -> Nat] /\ myAttempt' \in [Proc -> Nat]
    BY <1>2 DEF Types
  <2>2. audit' \in SUBSET Nat /\ transitions' \in SUBSET {"producer", "external"}
    BY <1>2, <1>6, <1>8
  <2> QED BY <1>2, <1>3, <1>4, <1>8, <2>1, <2>2 DEF Types, Statuses, Terminal
<1>10. \A q \in Proc : pc'[q] \in TokenLabels =>
          /\ q # p /\ pc[q] \in TokenLabels
          /\ myGeneration'[q] = myGeneration[q] /\ myAttempt'[q] = myAttempt[q]
          /\ ~Current(q)'
  BY <1>1, <1>2, <1>3 DEF Types, TokenLabels, Current
<1>11. TokenFacts'
  <2> SUFFICES ASSUME NEW q \in Proc, pc'[q] \in TokenLabels PROVE TokenFact(q)'
    BY DEF TokenFacts, TokenFact
  <2>1. /\ myGeneration[q] <= generation
        /\ myAttempt[q] \in DOMAIN attempts
        /\ attempts[myAttempt[q]].generation = myGeneration[q]
        /\ \A r \in Proc : pc[r] \in TokenLabels /\ myGeneration[r] = myGeneration[q] => r = q
    BY <1>10 DEF IndInv, TokenFacts, TokenFact
  <2> QED BY <1>2, <1>4, <1>5, <1>10, <2>1 DEF TokenFact
<1>12. LostFacts'
  BY <1>2, <1>4, <1>5, <1>10 DEF IndInv, LostFacts, Current
<1>13. DataInv'
  <2>1. StartFacts' /\ FreshFacts' /\ AnswersAgree'
    BY <1>1, <1>2, <1>4, <1>5, <1>6 DEF StartFacts, FreshFacts, AnswersAgree
  <2>2. FinalisationAtomic' /\ PublishedUnderCurrentToken' /\ OneTransition'
    <3>1. {i \in DOMAIN attempts' : attempts'[i].outcome = "SUCCESS"} = {myAttempt[p]}
      BY <1>1, <1>5, <1>7
    <3>2. FinalisationAtomic'
      BY <1>2, <1>6, <1>8, <3>1 DEF FinalisationAtomic
    <3>3. PublishedUnderCurrentToken'
      BY <1>1, <1>2, <1>4 DEF PublishedUnderCurrentToken
    <3>4. OneTransition'
      BY <1>2, <1>6 DEF OneTransition
    <3> QED BY <3>2, <3>3, <3>4
  <2>3. OpenAttemptIsCurrent'
    <3>1. \A i \in DOMAIN attempts : attempts'[i].outcome # "open"
      BY <1>1, <1>4 DEF IndInv, OpenAttemptIsCurrent
    <3> QED BY <1>5, <3>1 DEF OpenAttemptIsCurrent
  <2>4. AttemptBudget' /\ FailedMeansExhausted'
    BY <1>2, <1>4, <1>5 DEF IndInv, AttemptBudget, FailedMeansExhausted
  <2>5. ClaimLostIsTrue'
    <3> SUFFICES ASSUME NEW i \in DOMAIN attempts, attempts'[i].outcome = "CLAIM_LOST"
                 PROVE  attempts[i].generation < generation
      BY <1>2, <1>4, <1>5 DEF ClaimLostIsTrue
    <3>1. attempts[i].outcome = "CLAIM_LOST" /\ attempts[i].generation <= generation
      BY <1>4 DEF IndInv, LostFacts
    <3>2. attempts[i].generation # generation
      BY <1>1, <3>1 DEF IndInv, LostFacts
    <3>3. attempts[i].generation \in Nat /\ generation \in Nat
      BY <1>1, AttemptLemma DEF Types
    <3> QED BY <3>1, <3>2, <3>3
  <2> QED BY <2>1, <2>2, <2>3, <2>4, <2>5 DEF DataInv
<1> QED BY <1>3, <1>9, <1>11, <1>12, <1>13 DEF IndInv, DataInv

-------------------------------------------------------------------------------
\* The row Phase A leaves satisfies the invariant.
LEMMA InitInv == Init => Types /\ IndInv
<1> SUFFICES ASSUME Init PROVE Types /\ IndInv
  OBVIOUS
<1>1. Types
  BY ConstantsAssumption DEF Init, Types, Statuses, Terminal, Unlocked
<1>2. LockDiscipline /\ LockedFacts /\ TokenFacts
  BY ConstantsAssumption DEF Init, LockDiscipline, LockedFacts, TokenFacts, TokenFact,
     Holding, TokenLabels
<1>3. DOMAIN attempts = {} /\ Len(attempts) = 0
  BY DEF Init
<1>4. DataInv /\ LostFacts
  BY <1>3, ConstantsAssumption DEF Init, DataInv, LostFacts, StartFacts, FreshFacts,
     FinalisationAtomic, PublishedUnderCurrentToken, OneTransition, OpenAttemptIsCurrent,
     AttemptBudget, FailedMeansExhausted, ClaimLostIsTrue, AnswersAgree
<1> QED BY <1>1, <1>2, <1>4 DEF IndInv, DataInv

\* Every step keeps the invariant.
LEMMA NextInv == Types /\ IndInv /\ [Next]_vars => Types' /\ IndInv'
<1> SUFFICES ASSUME Types, IndInv, [Next]_vars PROVE Types' /\ IndInv'
  OBVIOUS
<1>1. ASSUME NEW p \in Proc, Step(p) PROVE Types' /\ IndInv'
  BY <1>1, AcquireEvaluateStep, AcquireLockStep, AcquireCommitStep, ReclaimEvaluateStep,
     ReclaimLockStep, ReclaimCommitStep, CallFailsStep, CallSucceedsStep, RefreshLockStep,
     RefreshUpdateStep, RefreshCommitStep, AuthorizeLockStep, AuthorizeUpdateStep,
     FinalizeCommitStep, FinalizeRejectStep, CloseAfterRollbackStep, AnswerStep
     DEF Step
<1>2. ASSUME NEW p \in Proc, Start(p) \/ Crash(p) PROVE Types' /\ IndInv'
  BY <1>2, StartStep, CrashStep
<1>3. CASE Tick \/ ExternalTransition
  BY <1>3, TickStep, ExternalTransitionStep
<1>4. CASE UNCHANGED vars
  <2>1. UNCHANGED DataVars /\ UNCHANGED <<rowLock, superseded, pc, myGeneration, myAttempt,
                                           planned, crashes>>
    BY <1>4 DEF vars, row, outputs, locals, DataVars
  <2>2. Types'
    BY <2>1 DEF Types, DataVars
  <2>3. DataInv'
    BY <2>1, DataUnchanged DEF IndInv, DataInv
  <2>4. LockDiscipline' /\ LockedFacts' /\ TokenFacts' /\ LostFacts'
    BY <2>1 DEF IndInv, DataVars, LockDiscipline, LockedFacts, TokenFacts, TokenFact, LostFacts,
       Acquirable, Reclaimable, LeaseIsExpired, Current
  <2> QED BY <2>2, <2>3, <2>4 DEF IndInv, DataInv
<1> QED BY <1>1, <1>2, <1>3, <1>4 DEF Next

\* IndInv holds in every reachable state, with the types.
THEOREM Invariance == Spec => [](Types /\ IndInv)
<1>1. Init => Types /\ IndInv
  BY InitInv
<1>2. Types /\ IndInv /\ [Next]_vars => (Types /\ IndInv)'
  BY NextInv
<1> QED BY <1>1, <1>2, PTL DEF Spec

\* The constraints between rows hold because attempts are numbered by their position, and
\* because the attempts closed SUCCESS are the one that the content names.
LEMMA ConstraintsFromInv == IndInv => ConstraintsHold
<1> SUFFICES ASSUME IndInv PROVE ConstraintsHold
  OBVIOUS
<1> DEFINE Done == {i \in DOMAIN attempts : attempts[i].outcome = "SUCCESS"}
<1>1. \A i \in DOMAIN attempts : attempts[i].number = i
  BY DEF IndInv, AttemptBudget
<1>2. Done = {content} \ {0}
  BY DEF IndInv, FinalisationAtomic
<1>3. \A i, j \in DOMAIN attempts :
         attempts[i].outcome = "SUCCESS" /\ attempts[j].outcome = "SUCCESS" => i = j
  <2> SUFFICES ASSUME NEW i \in DOMAIN attempts, NEW j \in DOMAIN attempts,
                      attempts[i].outcome = "SUCCESS", attempts[j].outcome = "SUCCESS"
               PROVE  i = j
    OBVIOUS
  <2>1. i \in Done /\ j \in Done
    OBVIOUS
  <2> QED BY <1>2, <2>1
<1>4. content # 0 => content \in DOMAIN attempts
  <2>1. content # 0 => content \in Done
    BY <1>2
  <2> QED BY <2>1
<1> QED BY <1>1, <1>3, <1>4 DEF ConstraintsHold

\* Rows and local state keep their types, and no worker meets a constraint of the tables.
THEOREM TypeCorrect == Spec => []TypeOK
<1>1. Types /\ IndInv => TypeOK
  BY ConstraintsFromInv DEF TypeOK
<1> QED BY <1>1, Invariance, PTL

\* What Phase C publishes: all of it or nothing, by one attempt that holds the last token,
\* against a version that left ELIGIBLE_PENDING once.
THEOREM Publication ==
    Spec => [](FinalisationAtomic /\ PublishedUnderCurrentToken /\ OneTransition)
<1>1. IndInv => FinalisationAtomic /\ PublishedUnderCurrentToken /\ OneTransition
  BY DEF IndInv
<1> QED BY Invariance, <1>1, PTL

\* What the attempts of a run say of it, whoever wrote them.
THEOREM AttemptHistory ==
    Spec => [](OpenAttemptIsCurrent /\ AttemptBudget /\ FailedMeansExhausted
               /\ ClaimLostIsTrue)
<1>1. IndInv => OpenAttemptIsCurrent /\ AttemptBudget /\ FailedMeansExhausted
                  /\ ClaimLostIsTrue
  BY DEF IndInv
<1> QED BY Invariance, <1>1, PTL

\* All callers are told the same ending.
THEOREM Agreement == Spec => []AnswersAgree
<1>1. IndInv => AnswersAgree
  BY DEF IndInv
<1> QED BY Invariance, <1>1, PTL

\* Authority granted under the row lock is exclusive until the commit.
THEOREM ExclusiveAuthority == Spec => []FinaliserOwnsOpenAttempt
<1>1. IndInv => FinaliserOwnsOpenAttempt
  BY DEF IndInv, LockedFacts, TokenFacts, TokenFact, Current, FinaliserOwnsOpenAttempt
<1> QED BY Invariance, <1>1, PTL

-------------------------------------------------------------------------------
\* Steps that leave the row's status, owner and token, and the published attempt, alone.
QuietStep(p) ==
    \/ Start(p) \/ AcquireEvaluate(p) \/ AcquireLock(p) \/ ReclaimEvaluate(p)
    \/ ReclaimLock(p) \/ CallFails(p) \/ CallSucceeds(p) \/ RefreshLock(p)
    \/ RefreshUpdate(p) \/ AuthorizeLock(p) \/ AuthorizeUpdate(p) \/ FinalizeReject(p)
    \/ CloseAfterRollback(p) \/ Answer(p) \/ Crash(p)

CommitStep(p) == AcquireCommit(p) \/ ReclaimCommit(p) \/ RefreshCommit(p) \/ FinalizeCommit(p)

\* Next, by what its steps do to the row.
LEMMA NextCases ==
    ASSUME Next
    PROVE  \/ \E p \in Proc : QuietStep(p) \/ CommitStep(p)
           \/ Tick \/ ExternalTransition
BY DEF Next, Step, QuietStep, CommitStep

\* A quiet step writes no row but, possibly, the outcome of an attempt.
LEMMA QuietRow ==
    ASSUME NEW p \in Proc, QuietStep(p)
    PROVE  UNCHANGED <<status, claimedBy, lease, generation, content, version, transitions,
                       audit>>
BY DEF QuietStep, Start, AcquireEvaluate, AcquireLock, ReclaimEvaluate, ReclaimLock, CallFails,
       CallSucceeds, RefreshLock, RefreshUpdate, AuthorizeLock, AuthorizeUpdate,
       FinalizeReject, CloseAfterRollback, Answer, Crash, UpdateEvaluate, UpdateLock,
       LockAgentRunRowForUpdate, row, outputs

\* close_attempt and the quiet steps keep every closed attempt and every token.
LEMMA QuietAttempts ==
    ASSUME Types, IndInv, NEW p \in Proc, QuietStep(p)
    PROVE  /\ Len(attempts') = Len(attempts)
           /\ \A i \in DOMAIN attempts :
                /\ attempts[i].outcome # "open" => attempts'[i] = attempts[i]
                /\ attempts'[i].generation = attempts[i].generation
<1>1. CASE CallFails(p) \/ CloseAfterRollback(p)
  <2>1. PICK o \in Outcomes : attempts' = CloseAttempt(attempts, myAttempt[p], o)
    BY <1>1 DEF CallFails, CloseAfterRollback, Outcomes
  <2>2. myAttempt[p] \in DOMAIN attempts /\ attempts \in Seq(Attempt)
    BY <1>1 DEF CallFails, CloseAfterRollback, IndInv, TokenFacts, TokenFact, TokenLabels, Types
  <2> QED BY <2>1, <2>2, CloseAttemptLemma
<1>2. CASE ~(CallFails(p) \/ CloseAfterRollback(p))
  <2>1. attempts' = attempts
    BY <1>2 DEF QuietStep, Start, AcquireEvaluate, AcquireLock, ReclaimEvaluate, ReclaimLock,
       CallSucceeds, RefreshLock, RefreshUpdate, AuthorizeLock, AuthorizeUpdate,
       FinalizeReject, Answer, Crash, UpdateEvaluate, UpdateLock, LockAgentRunRowForUpdate
  <2> QED BY <2>1
<1> QED BY <1>1, <1>2

\* A commit finds a run that has not ended, and appends to its attempts.
LEMMA CommitAttempts ==
    ASSUME Types, IndInv, NEW p \in Proc, CommitStep(p)
    PROVE  /\ status \notin Terminal
           /\ \A i \in DOMAIN attempts :
                attempts[i].outcome # "open" => attempts'[i] = attempts[i]
<1>1. status \notin Terminal /\ attempts \in Seq(Attempt) /\ generation \in Nat
  BY DEF CommitStep, AcquireCommit, ReclaimCommit, RefreshCommit, FinalizeCommit, IndInv,
     LockedFacts, TokenFacts, TokenFact, Current, Acquirable, Reclaimable, Terminal, Types
<1>2. CASE AcquireCommit(p)
  <2>1. attempts = << >>
    BY <1>2 DEF AcquireCommit, IndInv, LockedFacts, StartFacts, Acquirable
  <2> QED BY <1>1, <2>1
<1>3. ASSUME NEW h \in Seq(Attempt), NEW g \in Nat, CreateNextAttempt(p, g, h),
             Len(h) = Len(attempts),
             \A i \in DOMAIN attempts :
                h[i].number = i /\ (attempts[i].outcome # "open" => h[i] = attempts[i])
      PROVE  \A i \in DOMAIN attempts :
                attempts[i].outcome # "open" => attempts'[i] = attempts[i]
  <2>1. DOMAIN h = DOMAIN attempts /\ DOMAIN h = 1..Len(h)
    BY <1>1, <1>3
  <2>2. NextAttemptNumber(h) = Len(h) + 1
    BY <1>3, <2>1, NextAttemptNumberLemma
  <2>3. attempts' = h \/ attempts' = CreateAttempt(h, Len(h) + 1, g)
    BY <1>3, <2>2 DEF CreateNextAttempt
  <2>4. Len(h) + 1 \in Nat
    BY <1>3
  <2>5. \A i \in DOMAIN h : CreateAttempt(h, Len(h) + 1, g)[i] = h[i]
    BY <2>4, CreateAttemptLemma
  <2> QED BY <1>3, <2>1, <2>3, <2>5
<1>4. CASE ReclaimCommit(p)
  <2> DEFINE h == CloseAbandoned(attempts)
  <2>1. /\ h \in Seq(Attempt) /\ Len(h) = Len(attempts)
        /\ \A i \in DOMAIN attempts :
              h[i].number = i /\ (attempts[i].outcome # "open" => h[i] = attempts[i])
    BY <1>1, CloseAbandonedLemma DEF IndInv, AttemptBudget
  <2>2. CreateNextAttempt(p, generation + 1, h) /\ generation + 1 \in Nat
    BY <1>1, <1>4 DEF ReclaimCommit
  <2> DEFINE g == generation + 1
  <2>3. g \in Nat /\ CreateNextAttempt(p, g, h)
    BY <2>2
  <2> HIDE DEF h, g
  <2> QED BY <1>1, <1>3, <2>1, <2>3
<1>5. CASE RefreshCommit(p)
  <2>1. \A i \in DOMAIN attempts : attempts[i].number = i
    BY DEF IndInv, AttemptBudget
  <2>2. CreateNextAttempt(p, generation, attempts)
    BY <1>5 DEF RefreshCommit
  <2> QED BY <1>1, <1>3, <2>1, <2>2
<1>6. CASE FinalizeCommit(p)
  <2>1. "SUCCESS" \in Outcomes /\ myAttempt[p] \in DOMAIN attempts
    BY <1>6 DEF FinalizeCommit, Outcomes, IndInv, TokenFacts, TokenFact, TokenLabels
  <2> QED BY <1>1, <1>6, <2>1, CloseAttemptLemma DEF FinalizeCommit
<1> QED BY <1>1, <1>2, <1>4, <1>5, <1>6 DEF CommitStep

\* A token is granted only when no lease is valid (reclaim()'s monotonicity argument).
THEOREM LeasesDoNotOverlap == Spec => NoOverlappingLeases
<1>1. Types /\ IndInv /\ [Next]_vars => [GrantAfterExpiry]_vars
  <2> SUFFICES ASSUME Types, IndInv, Next PROVE GrantAfterExpiry
    OBVIOUS
  <2>1. ASSUME NEW p \in Proc, QuietStep(p) PROVE GrantAfterExpiry
    BY <2>1, QuietRow DEF GrantAfterExpiry
  <2>2. ASSUME NEW p \in Proc, CommitStep(p) PROVE GrantAfterExpiry
    BY <2>2 DEF GrantAfterExpiry, CommitStep, AcquireCommit, ReclaimCommit, RefreshCommit, FinalizeCommit,
       IndInv, LockedFacts, FreshFacts, Acquirable, Reclaimable
  <2>3. CASE Tick \/ ExternalTransition
    BY <2>3 DEF GrantAfterExpiry, Tick, ExternalTransition, row
  <2> QED BY <2>1, <2>2, <2>3, NextCases
<1> QED BY <1>1, Invariance, PTL DEF Spec, NoOverlappingLeases

\* Closed attempts and ended runs are never rewritten.
THEOREM FinalHistory == Spec => HistoryIsFinal
<1>1. Types /\ IndInv /\ [Next]_vars => [KeepHistory]_vars
  <2> SUFFICES ASSUME Types, IndInv, Next PROVE KeepHistory
    OBVIOUS
  <2>1. ASSUME NEW p \in Proc, QuietStep(p) PROVE KeepHistory
    BY <2>1, QuietRow, QuietAttempts DEF KeepHistory
  <2>2. ASSUME NEW p \in Proc, CommitStep(p) PROVE KeepHistory
    BY <2>2, CommitAttempts DEF KeepHistory
  <2>3. CASE Tick \/ ExternalTransition
    BY <2>3 DEF KeepHistory, Tick, ExternalTransition, row
  <2> QED BY <2>1, <2>2, <2>3, NextCases
<1> QED BY <1>1, Invariance, PTL DEF Spec, HistoryIsFinal

-------------------------------------------------------------------------------
\* The run implements the fenced lease.

\* A step that keeps the row and can only end an authority is an expiry or a stutter.
LEMMA QuietFenced ==
    ASSUME UNCHANGED <<status, generation, Published>>,
           Live \in BOOLEAN, Live' \in BOOLEAN, Live' => Live
    PROVE  [Fenced!FencedNext]_(Fenced!fencedVars)
BY DEF Fenced!FencedNext, Fenced!Expire, Fenced!fencedVars

\* The published token is the token of an attempt that is closed and stays.
LEMMA PublishedKept ==
    ASSUME Types, IndInv, UNCHANGED content,
           \A i \in DOMAIN attempts : attempts[i].outcome # "open" => attempts'[i] = attempts[i]
    PROVE  UNCHANGED Published
<1>1. content # 0 => content \in DOMAIN attempts /\ attempts[content].outcome # "open"
  BY DEF IndInv, FinalisationAtomic
<1> QED BY <1>1 DEF Published

\* Authority is given to one whose lease is valid, and only to one request at a time.
LEMMA QuietLive ==
    ASSUME Types, IndInv, NEW p \in Proc, QuietStep(p)
    PROVE  Live' => Live
<1>1. UNCHANGED lease
  BY QuietRow
<1>2. CASE (RefreshUpdate(p) \/ AuthorizeUpdate(p)) /\ IsOwner(p)
  BY <1>2 DEF IsOwner, Live
<1>3. CASE ~((RefreshUpdate(p) \/ AuthorizeUpdate(p)) /\ IsOwner(p))
  <2>1. PICK l : pc' = [pc EXCEPT ![p] = l] /\ l \notin {"refreshCommit", "finalize"}
    BY <1>3 DEF QuietStep, Start, AcquireEvaluate, AcquireLock, ReclaimEvaluate, ReclaimLock,
       CallFails, CallSucceeds, RefreshLock, RefreshUpdate, AuthorizeLock, AuthorizeUpdate,
       FinalizeReject, CloseAfterRollback, Answer, Crash, UpdateEvaluate, UpdateLock,
       LockAgentRunRowForUpdate, Goto
  <2>2. Authorised' => Authorised
    BY <2>1 DEF Authorised, Types
  <2> QED BY <1>1, <2>2 DEF Live, LeaseIsValid
<1> QED BY <1>2, <1>3

\* After a commit nobody is authorised any more.
LEMMA CommitLive ==
    ASSUME Types, IndInv, NEW p \in Proc, pc[p] \in Holding, CommitRow,
           NEW l \in Unlocked, pc' = [pc EXCEPT ![p] = l]
    PROVE  Live' <=> LeaseIsValid'
<1>1. /\ \A q \in Proc : q # p => pc[q] \notin Holding /\ pc'[q] = pc[q]
      /\ pc'[p] = l
  BY CommitLemma
<1>2. \A q \in Proc : pc'[q] \notin {"refreshCommit", "finalize"}
  BY <1>1 DEF Holding, Unlocked
<1> QED BY <1>2 DEF Live, Authorised

\* A fresh token, or the end of a run that cannot have another.
LEMMA GrantFenced ==
    ASSUME Types, IndInv, NEW p \in Proc, AcquireCommit(p) \/ ReclaimCommit(p)
    PROVE  Fenced!Grant
<1>1. pc[p] \in Holding /\ CommitRow /\ \E l \in Unlocked : pc' = [pc EXCEPT ![p] = l]
  BY DEF AcquireCommit, ReclaimCommit, CreateNextAttempt, Goto, Holding, Unlocked
<1>2. (Live' <=> LeaseIsValid') /\ Live' \in BOOLEAN
  BY <1>1, CommitLive DEF Live, LeaseIsValid, Authorised
<1>3. status = "PENDING" \/ (status = "IN_PROGRESS" /\ ~Live)
  <2>1. CASE AcquireCommit(p)
    BY <2>1 DEF AcquireCommit, IndInv, LockedFacts, Acquirable
  <2>2. CASE ReclaimCommit(p)
    <3>1. status = "IN_PROGRESS" /\ lease = 0 /\ pc[p] = "reclaimCommit"
      BY <2>2 DEF ReclaimCommit, IndInv, LockedFacts, Reclaimable, LeaseIsExpired
    <3>2. \A q \in Proc : q # p => pc[q] \notin Holding
      BY <1>1, ConstantsAssumption DEF IndInv, LockDiscipline
    <3>3. ~Authorised
      BY <3>1, <3>2 DEF Authorised, Holding
    <3> QED BY <3>1, <3>3 DEF Live, LeaseIsValid
  <2> QED BY <2>1, <2>2
<1>4. generation' = generation + 1 /\ UNCHANGED content
  BY DEF AcquireCommit, ReclaimCommit, outputs
<1>5. UNCHANGED Published
  BY <1>4, CommitAttempts, PublishedKept DEF CommitStep
<1>6. status' = "IN_PROGRESS" \/ (status' = "FAILED" /\ LeaseIsValid')
  BY DEF AcquireCommit, ReclaimCommit, CreateNextAttempt, MarkFailedIfOwner, LeaseIsValid
<1> QED BY <1>2, <1>3, <1>4, <1>5, <1>6 DEF Fenced!Grant

\* The owner that was authorised under the lock goes on with its token.
LEMMA RenewFenced ==
    ASSUME Types, IndInv, NEW p \in Proc, RefreshCommit(p)
    PROVE  Fenced!Renew
<1>1. /\ pc[p] \in Holding /\ pc[p] = "refreshCommit" /\ CommitRow
      /\ \E l \in Unlocked : pc' = [pc EXCEPT ![p] = l]
  BY DEF RefreshCommit, CreateNextAttempt, Goto, Holding, Unlocked
<1>2. (Live' <=> LeaseIsValid') /\ Live' \in BOOLEAN
  BY <1>1, CommitLive DEF Live, LeaseIsValid, Authorised
<1>3. Live /\ status = "IN_PROGRESS"
  BY <1>1 DEF Live, Authorised, IndInv, LockedFacts, TokenFacts, TokenFact, Current
<1>4. UNCHANGED <<generation, content>>
  BY DEF RefreshCommit, outputs
<1>5. UNCHANGED Published
  BY <1>4, CommitAttempts, PublishedKept DEF CommitStep
<1>6. status' = "IN_PROGRESS" \/ (status' = "FAILED" /\ LeaseIsValid')
  BY DEF RefreshCommit, CreateNextAttempt, MarkFailedIfOwner, LeaseIsValid
<1> QED BY <1>2, <1>3, <1>4, <1>5, <1>6 DEF Fenced!Renew

\* Phase C publishes under the last token granted.
LEMMA SucceedFenced ==
    ASSUME Types, IndInv, NEW p \in Proc, FinalizeCommit(p)
    PROVE  Fenced!Succeed
<1>1. pc[p] = "finalize" /\ Current(p) /\ status = "IN_PROGRESS"
      /\ content' = myAttempt[p] /\ status' = "SUCCEEDED" /\ UNCHANGED generation
  BY DEF FinalizeCommit, IndInv, LockedFacts, TokenFacts, TokenFact, Current
<1>2. Types' /\ IndInv'
  BY FinalizeCommitStep
<1>3. Published' = generation
  BY <1>1, <1>2 DEF IndInv, FinalisationAtomic, PublishedUnderCurrentToken, Published
<1>4. Live /\ Live' \in BOOLEAN
  BY <1>1 DEF Live, Authorised, LeaseIsValid
<1> QED BY <1>1, <1>3, <1>4 DEF Fenced!Succeed

\* Every behaviour of the run, its workers and its transactions is one of FencedLease.
THEOREM ImplementsFencedLease == Spec => FencedLeaseSpec
<1>1. Init => Fenced!FencedInit
  BY DEF Init, Fenced!FencedInit, Live, LeaseIsValid, Authorised, Published
<1>2. Types /\ IndInv /\ [Next]_vars => [Fenced!FencedNext]_(Fenced!fencedVars)
  <2> SUFFICES ASSUME Types, IndInv, [Next]_vars
               PROVE  [Fenced!FencedNext]_(Fenced!fencedVars)
    OBVIOUS
  <2>1. Live \in BOOLEAN /\ Live' \in BOOLEAN
    BY DEF Live, LeaseIsValid, Authorised
  <2>2. ASSUME NEW p \in Proc, QuietStep(p) PROVE [Fenced!FencedNext]_(Fenced!fencedVars)
    <3>1. UNCHANGED <<status, generation, content>>
      BY <2>2, QuietRow
    <3>2. UNCHANGED Published
      BY <2>2, <3>1, QuietAttempts, PublishedKept
    <3> QED BY <2>1, <2>2, <3>1, <3>2, QuietLive, QuietFenced
  <2>3. ASSUME NEW p \in Proc, CommitStep(p) PROVE [Fenced!FencedNext]_(Fenced!fencedVars)
    BY <2>3, GrantFenced, RenewFenced, SucceedFenced DEF CommitStep, Fenced!FencedNext
  <2>4. CASE Tick
    <3>1. UNCHANGED <<status, generation, content, attempts, pc>>
      BY <2>4 DEF Tick, outputs
    <3>2. Live' => Live
      BY <2>4, <3>1 DEF Tick, Live, LeaseIsValid, Authorised, Types
    <3> QED BY <2>1, <3>1, <3>2, QuietFenced DEF Published
  <2>5. CASE ExternalTransition \/ UNCHANGED vars
    <3>1. UNCHANGED <<status, lease, generation, content, attempts, pc>>
      BY <2>5 DEF ExternalTransition, vars, row, outputs, locals
    <3> QED BY <2>1, <3>1, QuietFenced DEF Published, Live, LeaseIsValid, Authorised
  <2> QED BY <2>2, <2>3, <2>4, <2>5, NextCases
<1> QED BY <1>1, <1>2, Invariance, PTL DEF Spec, FencedLeaseSpec, Fenced!FencedSpec
===============================================================================
