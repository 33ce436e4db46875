------------------------ MODULE AttemptCountingProofs ------------------------
(* The counters of ExecutionQueue agree with its history of attempts, for    *)
(* every number of tasks, phones, workers and recovery callers and every     *)
(* bound on the disturbances: used_count counts published attempts, and      *)
(* retry_count never runs ahead of the failed ones.                          *)
EXTENDS ExecutionQueueProofs, FiniteSetTheorems

-----------------------------------------------------------------------------
(* Attempts of a history with one result. *)

IndicesOf(s, x) == {i \in DOMAIN s : s[i] = x}

\* A history has finitely many attempts with a given result.
LEMMA IndicesFinite ==
  ASSUME NEW s \in Histories, NEW x
  PROVE  IsFiniteSet(IndicesOf(s, x)) /\ Cardinality(IndicesOf(s, x)) \in Nat
<1>1. Len(s) \in Nat /\ DOMAIN s = 1 .. Len(s)
  BY LenProperties DEF Histories
<1>2. IsFiniteSet(1 .. Len(s))
  BY <1>1, FS_Interval
<1>3. IndicesOf(s, x) \in SUBSET (1 .. Len(s))
  BY <1>1 DEF IndicesOf
<1>4. IsFiniteSet(IndicesOf(s, x))
  BY <1>2, <1>3, FS_Subset
<1> QED BY <1>4, FS_CardinalityType

\* A claim adds no result.
LEMMA OpeningAddsNoResult ==
  ASSUME NEW s \in Histories, NEW x \in ReportedResults
  PROVE  IndicesOf(Append(s, "running"), x) = IndicesOf(s, x)
<1>1. /\ Len(s) \in Nat
      /\ DOMAIN s = 1 .. Len(s)
      /\ DOMAIN Append(s, "running") = 1 .. (Len(s) + 1)
  BY LenProperties, OpenedHistory DEF Histories
<1>2. x # "running"
  BY DEF ReportedResults
<1> QED BY <1>1, <1>2, OpenedHistory DEF IndicesOf

\* Recovery neither adds nor removes a reported result.
LEMMA ClosingKeepsResults ==
  ASSUME NEW s \in Histories, NEW x \in ReportedResults
  PROVE  IndicesOf(CloseAttempts(s), x) = IndicesOf(s, x)
<1>1. DOMAIN s = 1 .. Len(s) /\ DOMAIN CloseAttempts(s) = 1 .. Len(s)
  BY LenProperties, ClosedHistory DEF Histories
<1>2. x # "running" /\ x # "stale_recovered"
  BY DEF ReportedResults
<1> QED BY <1>1, <1>2, ClosedHistory DEF IndicesOf

\* A result written to an open attempt is counted once, under that result only.
LEMMA SettlingAddsOneResult ==
  ASSUME NEW s \in Histories, NEW i \in 1 .. Len(s), s[i] \in OpenResults,
         NEW x \in ReportedResults, NEW y \in ReportedResults
  PROVE  Cardinality(IndicesOf([s EXCEPT ![i] = y], x)) =
           Cardinality(IndicesOf(s, x)) + (IF x = y THEN 1 ELSE 0)
<1> DEFINE u == [s EXCEPT ![i] = y]
<1>1. y \in AttemptResults /\ s[i] # x
  BY DEF ReportedResults, AttemptResults, OpenResults
<1>2. /\ DOMAIN s = 1 .. Len(s) /\ i \in Nat
      /\ DOMAIN u = 1 .. Len(s)
      /\ \A j \in 1 .. Len(s) : u[j] = IF j = i THEN y ELSE s[j]
  BY <1>1, LenProperties, SettledHistory DEF Histories
<1>3. IndicesOf(u, x) = IF x = y THEN IndicesOf(s, x) \cup {i} ELSE IndicesOf(s, x)
  BY <1>1, <1>2 DEF IndicesOf
<1>4. i \notin IndicesOf(s, x)
  BY <1>1 DEF IndicesOf
<1>5. IsFiniteSet(IndicesOf(s, x)) /\ Cardinality(IndicesOf(s, x)) \in Nat
  BY IndicesFinite
<1>6. CASE x = y
  <2>1. Cardinality(IndicesOf(s, x) \cup {i}) = Cardinality(IndicesOf(s, x)) + 1
    BY <1>4, <1>5, FS_AddElement
  <2> QED BY <1>3, <1>6, <2>1
<1>7. CASE x # y
  BY <1>3, <1>5, <1>7
<1> QED BY <1>6, <1>7

-----------------------------------------------------------------------------
(* What a step does to the counters and to the memory they are written from. *)

\* The states of a worker that has claimed a task and not reported it yet.
Working == Holding \ {"claim"}

\* Such a worker knows the attempt it will report.
AttemptKnown == \A w \in Workers : pc[w] \in Working => claim[w].attempt # 0

\* A step that leaves both counters and all reported results alone: attempts are
\* at most opened or closed.
ResultsKept ==
  /\ usedCount' = usedCount
  /\ retryCount' = retryCount
  /\ \A t \in Tasks :
       attempts'[t] \in {attempts[t], Append(attempts[t], "running"), CloseAttempts(attempts[t])}

\* A result that neither counter is about.
OtherResult(w) ==
  /\ pc[w] \in Working
  /\ usedCount' = usedCount
  /\ retryCount' = retryCount
  /\ \E x \in {"dry_run", "debug_ready"}, s \in TaskStatuses : Settle(w, x, s)

\* The counters are written together with a result, or not at all.
LEMMA CounterStep ==
  ASSUME TypeInv, [Next]_vars
  PROVE  \/ ResultsKept
         \/ \E w \in Workers : mark_success(w)
         \/ \E w \in Workers : mark_failure(w)
         \/ \E w \in Workers : OtherResult(w)
<1> DEFINE Goal == \/ ResultsKept
                   \/ \E w \in Workers : mark_success(w)
                   \/ \E w \in Workers : mark_failure(w)
                   \/ \E w \in Workers : OtherResult(w)
<1> USE DEF ResultsKept, taskVars, historyVars
<1>1. ASSUME NEW w \in Workers, mark_debug_ready(w) \/ mark_dry_run(w) PROVE Goal
  BY <1>1 DEF mark_debug_ready, mark_dry_run, OtherResult, Working, Holding, TaskStatuses
<1>2. ASSUME NEW w \in Workers, claim_next(w) PROVE Goal
  BY <1>2 DEF claim_next, OpenAttempt, TypeInv, TypeOK, TasksTyped
<1>3. ASSUME NEW w \in Workers, WorkerStep(w) PROVE Goal
  BY <1>1, <1>2, <1>3
  DEF WorkerStep, Register, BeginHealthCheck, NoCandidate, EndHealthCheck, SelectCandidate,
      mark_completed_dry_run_tasks, ClaimRefused, ClaimHook, StartPipeline,
      RejectBeforeRun, PipelineEnds, ReadRetryCount, CooldownEnds, finish
<1>4. ASSUME NEW r \in Recoverers, RecoveryStep(r) PROVE Goal
  BY <1>4
  DEF RecoveryStep, recover_stale, recover_dead_processes, SelectForRecovery,
      ReadLockedTasks, recover_worker
<1>5. ASSUME NEW p \in Phones, MonitorStep(p) PROVE Goal
  BY <1>5 DEF MonitorStep, BeginUsbCheck, EndUsbCheck
<1>6. ASSUME NEW w \in Workers, NEW p \in Phones, Launch(w, p) PROVE Goal
  BY <1>6 DEF Launch
<1>7. ASSUME NEW w \in Workers, Heartbeat(w) \/ OrphanEnds(w) \/ LeaseExpires(w)
                                  \/ LeaseLapses(w)
      PROVE  Goal
  BY <1>7 DEF Heartbeat, OrphanEnds, LeaseExpires, LeaseLapses, Expire
<1>8. ASSUME NEW w \in Workers, WorkerException(w) \/ StopWorker(w) \/ Crash(w) PROVE Goal
  BY <1>8 DEF WorkerException, StopWorker, Crash
<1>9. ASSUME reschedule_overdue_tasks \/ pause_overdue_tasks PROVE Goal
  BY <1>9 DEF reschedule_overdue_tasks, pause_overdue_tasks
<1>10. ASSUME NEW t \in Tasks, Elapse(t) PROVE Goal
  BY <1>10 DEF Elapse
<1>11. CASE UNCHANGED vars
  BY <1>11 DEF vars
<1> QED BY <1>3, <1>4, <1>5, <1>6, <1>7, <1>8, <1>9, <1>10, <1>11 DEF Next

\* A worker starts to work by claiming, and reports what it read by then.
LEMMA WorkStep ==
  ASSUME MemoryOK, [Next]_vars, NEW v \in Workers
  PROVE  /\ pc'[v] \in Working =>
              claim_next(v) \/ (pc[v] \in Working /\ claim'[v] = claim[v])
         /\ pc'[v] = "report_failure" =>
              ReadRetryCount(v) \/ (pc[v] = "report_failure" /\ readRetry'[v] = readRetry[v])
<1> DEFINE Goal == /\ pc'[v] \in Working =>
                        claim_next(v) \/ (pc[v] \in Working /\ claim'[v] = claim[v])
                   /\ pc'[v] = "report_failure" =>
                        \/ ReadRetryCount(v)
                        \/ pc[v] = "report_failure" /\ readRetry'[v] = readRetry[v]
<1> USE DEF Working, Holding, claimVars, workerVars
<1>0. /\ pc \in [Workers -> WorkerPcs]
      /\ claim \in [Workers -> [task : Tasks \cup {None}, attempt : Nat]]
  BY DEF MemoryOK, ProcessesTyped
<1>1. ASSUME NEW w \in Workers, NEW l, pc' = [pc EXCEPT ![w] = l],
             l \notin Working, \A u \in Workers \ {w} : claim'[u] = claim[u],
             \A u \in Workers \ {w} : readRetry'[u] = readRetry[u]
      PROVE  Goal
  BY <1>0, <1>1
<1>2. ASSUME NEW w \in Workers, NEW l, pc' = [pc EXCEPT ![w] = l],
             l # "report_failure", pc[w] \in Working, claim' = claim, readRetry' = readRetry
      PROVE  Goal
  BY <1>0, <1>2
<1>3. ASSUME NEW w \in Workers, ForgetClaim(w)
      PROVE  /\ \A u \in Workers \ {w} : claim'[u] = claim[u]
             /\ \A u \in Workers \ {w} : readRetry'[u] = readRetry[u]
  BY <1>3 DEF ForgetClaim, MemoryOK, ProcessesTyped
<1>4. ASSUME pc' = pc, claim' = claim, readRetry' = readRetry PROVE Goal
  BY <1>4
<1>5. ASSUME NEW w \in Workers, NEW p \in Phones, Launch(w, p) PROVE Goal
  BY <1>1, <1>5 DEF Launch
<1>6. ASSUME NEW w \in Workers, Register(w) PROVE Goal
  BY <1>1, <1>6 DEF Register
<1>7. ASSUME NEW w \in Workers, BeginHealthCheck(w) \/ NoCandidate(w) PROVE Goal
  BY <1>1, <1>7 DEF BeginHealthCheck, NoCandidate
<1>8. ASSUME NEW w \in Workers, NEW s \in HealthStatuses, EndHealthCheck(w, s) PROVE Goal
  BY <1>1, <1>8 DEF EndHealthCheck
<1>9. ASSUME NEW w \in Workers, NEW t \in Tasks, SelectCandidate(w, t) PROVE Goal
  BY <1>0, <1>1, <1>9 DEF SelectCandidate
<1>10. ASSUME NEW w \in Workers, claim_next(w) PROVE Goal
  <2>1. pc' = [pc EXCEPT ![w] = "prepare"] /\ readRetry' = readRetry
    BY <1>10 DEF claim_next
  <2>2. \A u \in Workers \ {w} : claim'[u] = claim[u]
    BY <1>0, <1>10 DEF claim_next
  <2> QED BY <1>0, <1>10, <2>1, <2>2
<1>11. ASSUME NEW w \in Workers, ClaimRefused(w) PROVE Goal
  BY <1>0, <1>1, <1>11 DEF ClaimRefused
<1>12. ASSUME NEW w \in Workers, ClaimHook(w) \/ StartPipeline(w) PROVE Goal
  BY <1>2, <1>12 DEF ClaimHook, StartPipeline
<1>13. ASSUME NEW w \in Workers, NEW o \in Outcomes, RejectBeforeRun(w, o) \/ PipelineEnds(w, o)
       PROVE  Goal
  BY <1>2, <1>13 DEF RejectBeforeRun, PipelineEnds, Conclude
<1>14. ASSUME NEW w \in Workers, mark_success(w) \/ mark_debug_ready(w) PROVE Goal
  BY <1>1, <1>3, <1>14 DEF mark_success, mark_debug_ready, BackToPolling
<1>15. ASSUME NEW w \in Workers, mark_dry_run(w) PROVE Goal
  BY <1>1, <1>3, <1>15 DEF mark_dry_run, BackToPolling
<1>16. ASSUME NEW w \in Workers, ReadRetryCount(w) PROVE Goal
  BY <1>0, <1>16 DEF ReadRetryCount, MemoryOK, ProcessesTyped
<1>17. ASSUME NEW w \in Workers, mark_failure(w) PROVE Goal
  <2>1. PICK l \in {"exit", "cooldown"} : pc' = [pc EXCEPT ![w] = l]
    BY <1>17 DEF mark_failure
  <2> QED BY <1>1, <1>3, <1>17, <2>1 DEF mark_failure
<1>18. ASSUME NEW w \in Workers, CooldownEnds(w) \/ StopWorker(w) PROVE Goal
  BY <1>1, <1>18 DEF CooldownEnds, StopWorker, BackToPolling
<1>19. ASSUME NEW w \in Workers, finish(w) \/ Crash(w) \/ WorkerException(w) PROVE Goal
  BY <1>1, <1>3, <1>19 DEF finish, Crash, WorkerException, ProcessEnds
<1>20. ASSUME NEW w \in Workers, Heartbeat(w) \/ OrphanEnds(w) \/ LeaseExpires(w)
                                   \/ LeaseLapses(w)
       PROVE  Goal
  BY <1>4, <1>20 DEF Heartbeat, OrphanEnds, LeaseExpires, LeaseLapses, Expire
<1>21. ASSUME NEW r \in Recoverers, RecoveryStep(r) PROVE Goal
  BY <1>4, <1>21
  DEF RecoveryStep, recover_stale, recover_dead_processes, SelectForRecovery,
      ReadLockedTasks, recover_worker
<1>22. ASSUME NEW p \in Phones, MonitorStep(p) PROVE Goal
  BY <1>4, <1>22 DEF MonitorStep, BeginUsbCheck, EndUsbCheck
<1>23. ASSUME reschedule_overdue_tasks \/ pause_overdue_tasks PROVE Goal
  BY <1>4, <1>23 DEF reschedule_overdue_tasks, pause_overdue_tasks
<1>24. ASSUME NEW t \in Tasks, Elapse(t) PROVE Goal
  BY <1>4, <1>24 DEF Elapse
<1>25. CASE UNCHANGED vars
  BY <1>4, <1>25 DEF vars
<1> QED
  BY <1>5, <1>6, <1>7, <1>8, <1>9, <1>10, <1>11, <1>12, <1>13, <1>14, <1>15, <1>16, <1>17,
     <1>18, <1>19, <1>20, <1>21, <1>22, <1>23, <1>24, <1>25
  DEF Next, WorkerStep

\* Whoever works has an attempt: a claim opens one, nothing takes it away.
LEMMA StepAttemptKnown ==
  ASSUME TypeInv, AttemptKnown, [Next]_vars
  PROVE  AttemptKnown'
<1> SUFFICES ASSUME NEW w \in Workers, pc'[w] \in Working PROVE claim'[w].attempt # 0
  BY DEF AttemptKnown
<1>1. CASE claim_next(w)
  <2>1. claim[w].task \in Tasks
    BY <1>1 DEF claim_next, TypeInv, ClaimTyped, Holding
  <2>2. Len(attempts[claim[w].task]) \in Nat
    BY <2>1, LenProperties DEF TypeInv, TypeOK, TasksTyped
  <2>3. claim'[w].attempt = Len(attempts[claim[w].task]) + 1
    BY <1>1 DEF claim_next, TypeInv, TypeOK, ProcessesTyped
  <2> QED BY <2>2, <2>3
<1>2. CASE pc[w] \in Working /\ claim'[w] = claim[w]
  BY <1>2 DEF AttemptKnown
<1> QED BY <1>1, <1>2, MemoryOfTypes, WorkStep

-----------------------------------------------------------------------------
(* How a step changes the number of attempts with a reported result. *)

Count(t, x) == Cardinality(AttemptsWith(t, x))

\* Such a number is one.
LEMMA CountTyped ==
  ASSUME TypeInv, NEW t \in Tasks, NEW x
  PROVE  Count(t, x) \in Nat
<1>1. attempts[t] \in Histories /\ AttemptsWith(t, x) = IndicesOf(attempts[t], x)
  BY DEF TypeInv, TypeOK, TasksTyped, Histories, AttemptsWith, IndicesOf
<1> QED BY <1>1, IndicesFinite DEF Count

\* Opening and closing attempts changes none of them.
LEMMA KeptCounts ==
  ASSUME TypeInv, ResultsKept, NEW t \in Tasks, NEW x \in ReportedResults
  PROVE  Count(t, x)' = Count(t, x)
<1>1. attempts[t] \in Histories
  BY DEF TypeInv, TypeOK, TasksTyped, Histories
<1>2. /\ AttemptsWith(t, x) = IndicesOf(attempts[t], x)
      /\ AttemptsWith(t, x)' = IndicesOf(attempts'[t], x)
  BY DEF AttemptsWith, IndicesOf
<1>3. IndicesOf(attempts'[t], x) = IndicesOf(attempts[t], x)
  BY <1>1, OpeningAddsNoResult, ClosingKeepsResults DEF ResultsKept
<1> QED BY <1>2, <1>3 DEF Count

\* Writing a result changes one of them, by one: the claim's attempt was open.
LEMMA SettledCounts ==
  ASSUME TypeInv, ClaimInv, AttemptKnown,
         NEW w \in Workers, pc[w] \in Working,
         NEW y \in ReportedResults, NEW s, Settle(w, y, s),
         NEW t \in Tasks, NEW x \in ReportedResults
  PROVE  Count(t, x)' = Count(t, x) + (IF t = claim[w].task /\ x = y THEN 1 ELSE 0)
<1> DEFINE c == claim[w]
<1>1. /\ c.task \in Tasks
      /\ c.attempt \in 1 .. Len(attempts[c.task])
      /\ attempts[c.task][c.attempt] \in OpenResults
  BY DEF AttemptKnown, ClaimInv, ClaimsOpen
<1>2. attempts[t] \in Histories
  BY DEF TypeInv, TypeOK, TasksTyped, Histories
<1>3. /\ AttemptsWith(t, x) = IndicesOf(attempts[t], x)
      /\ AttemptsWith(t, x)' = IndicesOf(attempts'[t], x)
      /\ Count(t, x) \in Nat
  BY CountTyped DEF AttemptsWith, IndicesOf
<1>4. attempts'[t] = IF t = c.task THEN [attempts[t] EXCEPT ![c.attempt] = y] ELSE attempts[t]
  BY <1>1 DEF Settle, TypeInv, TypeOK, TasksTyped
<1>5. CASE t = c.task
  BY <1>1, <1>2, <1>3, <1>4, <1>5, SettlingAddsOneResult DEF Count
<1>6. CASE t # c.task
  BY <1>3, <1>4, <1>6 DEF Count
<1> QED BY <1>5, <1>6

-----------------------------------------------------------------------------
(* used_count counts publications. *)

\* mark_success adds one to the counter and one published attempt to the history.
LEMMA StepUsage ==
  ASSUME TypeInv, ClaimInv, AttemptKnown, UsageMatchesHistory, [Next]_vars
  PROVE  UsageMatchesHistory'
<1> SUFFICES ASSUME NEW t \in Tasks PROVE usedCount'[t] = Count(t, "published")'
  BY DEF UsageMatchesHistory, Count
<1>1. usedCount[t] = Count(t, "published") /\ Count(t, "published") \in Nat
  BY CountTyped DEF UsageMatchesHistory, Count
<1>2. "published" \in ReportedResults
  BY DEF ReportedResults
<1>3. CASE ResultsKept
  BY <1>1, <1>2, <1>3, KeptCounts DEF ResultsKept
<1>4. ASSUME NEW w \in Workers, mark_success(w) PROVE usedCount'[t] = Count(t, "published")'
  <2>1. pc[w] \in Working /\ Settle(w, "published", "published")
    BY <1>4 DEF mark_success, Working, Holding
  <2>2. usedCount'[t] = usedCount[t] + (IF t = claim[w].task THEN 1 ELSE 0)
    BY <1>1, <1>4 DEF mark_success, TypeInv, TypeOK, TasksTyped
  <2> QED BY <1>1, <1>2, <2>1, <2>2, SettledCounts
<1>5. ASSUME NEW w \in Workers, mark_failure(w) PROVE usedCount'[t] = Count(t, "published")'
  <2>1. PICK s : pc[w] \in Working /\ Settle(w, "failed", s) /\ usedCount' = usedCount
    BY <1>5 DEF mark_failure, Working, Holding
  <2>2. "failed" \in ReportedResults
    BY DEF ReportedResults
  <2> QED BY <1>1, <1>2, <2>1, <2>2, SettledCounts
<1>6. ASSUME NEW w \in Workers, OtherResult(w) PROVE usedCount'[t] = Count(t, "published")'
  <2>1. PICK y \in {"dry_run", "debug_ready"}, s \in TaskStatuses : Settle(w, y, s)
    BY <1>6 DEF OtherResult
  <2>2. y \in ReportedResults /\ y # "published"
    BY DEF ReportedResults
  <2> QED BY <1>1, <1>2, <1>6, <2>1, <2>2, SettledCounts DEF OtherResult
<1> QED BY <1>3, <1>4, <1>5, <1>6, CounterStep

\* What both theorems start from.
CountingInv == TypeInv /\ ClaimInv /\ AttemptKnown

\* The invariant that the claims and the memory of the workers keep.
LEMMA CountingInvariant ==
  /\ Init => CountingInv
  /\ CountingInv /\ [Next]_vars => CountingInv'
<1>1. Init => CountingInv
  BY InitTyped
  DEF Init, CountingInv, ClaimInv, ClaimsOpen, ClaimsDistinct, NoClaim, AttemptKnown, Working,
      Holding
<1>2. CountingInv /\ [Next]_vars => CountingInv'
  BY StepTyped, StepClaims, StepAttemptKnown DEF CountingInv
<1> QED BY <1>1, <1>2

\* A video's used_count equals the number of published attempts of its task,
\* also when results of several attempts arrive late or a result races with a
\* recovery: no publication is counted twice or lost.
THEOREM UsageMatchesHistoryHolds == Spec => []UsageMatchesHistory
<1>1. Init => UsageMatchesHistory
  <2>1. ASSUME NEW x PROVE {i \in DOMAIN << >> : << >>[i] = x} = {}
    OBVIOUS
  <2> QED BY <2>1, FS_EmptySet DEF Init, UsageMatchesHistory, AttemptsWith
<1>2. CountingInv /\ UsageMatchesHistory /\ [Next]_vars => UsageMatchesHistory'
  BY StepUsage DEF CountingInv
<1> QED BY <1>1, <1>2, CountingInvariant, PTL DEF Spec

-----------------------------------------------------------------------------
(* retry_count never runs ahead of the failures. *)

\* The count that mark_failure read is not ahead either, and the attempt it is
\* about to close is not among the failures yet.
ReadRetryFresh ==
  \A w \in Workers : pc[w] = "report_failure" => readRetry[w] <= Count(claim[w].task, "failed")

RetryInv == CountingInv /\ RetriesNeverOvercount /\ ReadRetryFresh

\* Failures only get more.
LEMMA FailuresGrow ==
  ASSUME CountingInv, [Next]_vars, NEW t \in Tasks
  PROVE  Count(t, "failed") \in Nat /\ Count(t, "failed")' \in Nat
         /\ Count(t, "failed")' >= Count(t, "failed")
<1>1. Count(t, "failed") \in Nat /\ Count(t, "failed")' \in Nat
  <2>1. TypeInv /\ TypeInv'
    BY StepTyped DEF CountingInv
  <2>2. attempts'[t] \in Histories /\ AttemptsWith(t, "failed")' = IndicesOf(attempts'[t], "failed")
    BY <2>1 DEF TypeInv, TypeOK, TasksTyped, Histories, AttemptsWith, IndicesOf
  <2> QED BY <2>1, <2>2, CountTyped, IndicesFinite DEF Count
<1>2. "failed" \in ReportedResults
  BY DEF ReportedResults
<1>3. CASE ResultsKept
  BY <1>1, <1>2, <1>3, KeptCounts DEF CountingInv
<1>4. ASSUME NEW w \in Workers, pc[w] \in Working, NEW y \in ReportedResults, NEW s, Settle(w, y, s)
      PROVE  Count(t, "failed")' >= Count(t, "failed")
  BY <1>1, <1>2, <1>4, SettledCounts DEF CountingInv
<1>5. ASSUME NEW w \in Workers, mark_success(w) \/ mark_failure(w) \/ OtherResult(w)
      PROVE  \E y \in ReportedResults : \E s : pc[w] \in Working /\ Settle(w, y, s)
  BY <1>5 DEF mark_success, mark_failure, OtherResult, Working, Holding, ReportedResults
<1> QED BY <1>1, <1>3, <1>4, <1>5, CounterStep DEF CountingInv

\* mark_failure writes one more than it read and adds one failed attempt.
LEMMA StepRetries ==
  ASSUME RetryInv, [Next]_vars
  PROVE  RetriesNeverOvercount'
<1> SUFFICES ASSUME NEW t \in Tasks PROVE retryCount'[t] <= Count(t, "failed")'
  BY DEF RetriesNeverOvercount, Count
<1>1. /\ retryCount[t] \in Nat
      /\ retryCount[t] <= Count(t, "failed")
      /\ Count(t, "failed") \in Nat
      /\ Count(t, "failed")' \in Nat
      /\ Count(t, "failed")' >= Count(t, "failed")
  BY FailuresGrow
  DEF RetryInv, CountingInv, RetriesNeverOvercount, Count, TypeInv, TypeOK, TasksTyped
<1>2. CASE retryCount' = retryCount
  BY <1>1, <1>2
<1>3. ASSUME NEW w \in Workers, mark_failure(w) PROVE retryCount'[t] <= Count(t, "failed")'
  <2>1. CASE t = claim[w].task
    <3>1. retryCount'[t] = readRetry[w] + 1 /\ readRetry[w] \in Nat
      BY <1>3, <2>1 DEF mark_failure, RetryInv, CountingInv, TypeInv, TypeOK, TasksTyped,
                        ProcessesTyped
    <3>2. readRetry[w] <= Count(t, "failed")
      BY <1>3, <2>1 DEF mark_failure, RetryInv, ReadRetryFresh
    <3>3. PICK s : pc[w] \in Working /\ Settle(w, "failed", s)
      BY <1>3 DEF mark_failure, Working, Holding
    <3>4. Count(t, "failed")' = Count(t, "failed") + 1
      <4>1. "failed" \in ReportedResults
        BY DEF ReportedResults
      <4> QED BY <2>1, <3>3, <4>1, SettledCounts DEF RetryInv, CountingInv
    <3> QED BY <1>1, <3>1, <3>2, <3>4
  <2>2. CASE t # claim[w].task
    <3>1. retryCount'[t] = retryCount[t]
      BY <1>3, <2>2 DEF mark_failure, RetryInv, CountingInv, TypeInv, TypeOK, TasksTyped
    <3> QED BY <1>1, <3>1
  <2> QED BY <2>1, <2>2
<1>4. ASSUME NEW w \in Workers, mark_success(w) \/ OtherResult(w) PROVE retryCount' = retryCount
  BY <1>4 DEF mark_success, OtherResult
<1> QED BY <1>2, <1>3, <1>4, CounterStep DEF RetryInv, CountingInv, ResultsKept

\* What a worker reads is not ahead, and stays so while it waits to write.
LEMMA StepReadRetry ==
  ASSUME RetryInv, [Next]_vars
  PROVE  ReadRetryFresh'
<1> SUFFICES ASSUME NEW w \in Workers, pc'[w] = "report_failure", NEW t, t = claim'[w].task
             PROVE  readRetry'[w] <= Count(t, "failed")'
  BY DEF ReadRetryFresh, Count, AttemptsWith
<1>1. TypeInv
  BY DEF RetryInv, CountingInv
<1>2. t = claim[w].task /\ t \in Tasks
  <2>1. claim'[w] = claim[w]
    BY <1>1, MemoryOfTypes, WorkStep DEF Working, Holding, claim_next, TypeInv, TypeOK, ProcessesTyped
  <2>2. TypeInv'
    BY <1>1, StepTyped
  <2> QED BY <2>1, <2>2 DEF TypeInv, ClaimTyped, Holding
<1>3. /\ Count(t, "failed") \in Nat
      /\ Count(t, "failed")' \in Nat
      /\ Count(t, "failed")' >= Count(t, "failed")
  BY <1>2, FailuresGrow DEF RetryInv
<1>4. CASE ReadRetryCount(w)
  <2>1. readRetry'[w] = retryCount[t] /\ retryCount[t] \in Nat
    BY <1>1, <1>2, <1>4 DEF ReadRetryCount, TypeInv, TypeOK, TasksTyped, ProcessesTyped
  <2>2. retryCount[t] <= Count(t, "failed")
    BY <1>2 DEF RetryInv, RetriesNeverOvercount, Count
  <2> QED BY <1>3, <2>1, <2>2
<1>5. CASE pc[w] = "report_failure" /\ readRetry'[w] = readRetry[w]
  <2>1. readRetry[w] \in Nat /\ readRetry[w] <= Count(t, "failed")
    BY <1>1, <1>2, <1>5 DEF RetryInv, ReadRetryFresh, TypeInv, TypeOK, ProcessesTyped
  <2> QED BY <1>3, <1>5, <2>1
<1> QED BY <1>1, <1>4, <1>5, MemoryOfTypes, WorkStep

\* No task is charged more retries than it has failed attempts, although the
\* count is read outside the transaction that writes it: two late failures of
\* one task may lose a retry, never invent one, so no task is given up early.
THEOREM RetriesNeverOvercountHolds == Spec => []RetriesNeverOvercount
<1>1. Init => RetryInv
  <2>1. ASSUME NEW t \in Tasks, Init PROVE Count(t, "failed") = 0
    <3>1. {i \in DOMAIN << >> : << >>[i] = "failed"} = {}
      OBVIOUS
    <3> QED BY <2>1, <3>1, FS_EmptySet DEF Init, Count, AttemptsWith
  <2>2. Init => RetriesNeverOvercount
    BY <2>1 DEF Init, RetriesNeverOvercount, Count
  <2>3. Init => ReadRetryFresh
    BY DEF Init, ReadRetryFresh
  <2> QED BY <2>2, <2>3, CountingInvariant DEF RetryInv
<1>2. RetryInv /\ [Next]_vars => RetryInv'
  BY CountingInvariant, StepRetries, StepReadRetry DEF RetryInv
<1>3. RetryInv => RetriesNeverOvercount
  BY DEF RetryInv
<1> QED BY <1>1, <1>2, <1>3, PTL DEF Spec

=============================================================================
