--------------------------- MODULE JobQueueProofs ---------------------------
(***************************************************************************)
(* What TLAPS proves about JobQueue for any jobs, workers, handlers,       *)
(* retry limit and number of faults.                                       *)
(***************************************************************************)
EXTENDS JobQueueRefinement, SequenceTheorems, TLAPS

\* A process between reserve() (or the check of a stale member) and the end of
\* its run_once() holds a serialized job.
JobHeld ==
  \A p \in Procs : pc[p] \notin {"idle", "scan", "stale", "reserve"} => job[p] \in Raw

TypeInv == TypeOK /\ JobHeld

LEMMA RawFields ==
  \A r \in Raw : r.id \in Jobs /\ r.attempts \in Nat /\ r.attempts <= MaxRetries + 1
BY QueueAssumption DEF Raw

LEMMA BagTypes ==
  ASSUME NEW bag \in [Raw -> Nat], NEW r
  PROVE  LRem(bag, r) \in [Raw -> Nat] /\ Push(bag, r) \in [Raw -> Nat]
<1>1. CASE r \in Raw
  <2>1. bag[r] \in Nat
    BY <1>1
  <2>2. (IF bag[r] > 0 THEN bag[r] - 1 ELSE 0) \in Nat /\ bag[r] + 1 \in Nat
    BY <2>1
  <2> QED
    BY <2>2, <1>1 DEF LRem, Push
<1>2. CASE r \notin Raw
  BY <1>2 DEF LRem, Push
<1> QED
  BY <1>1, <1>2

LEMMA NewJobType == \A j \in Jobs : NewJob(j) \in Raw
BY QueueAssumption DEF NewJob, Raw

LEMMA RetriedType ==
  ASSUME NEW r \in Raw, Retried(r).attempts <= MaxRetries
  PROVE  Retried(r) \in Raw
BY QueueAssumption DEF Retried, Raw

\* The operations of QueueService keep the types of the queue's keys.
LEMMA EnqueueType ==
  ASSUME QueueTypeOK, NEW batch \in Batches, Enqueue(batch)
  PROVE  QueueTypeOK'
<1>1. PICK n \in 1..MaxBatch : batch \in [1..n -> Jobs \ accepted]
  BY DEF Batches
<1>2. [i \in DOMAIN batch |-> NewJob(batch[i])] \in Seq(Raw)
  BY <1>1, NewJobType, QueueAssumption
<1>3. pending' \in Seq(Raw)
  BY <1>2, ConcatProperties DEF QueueTypeOK, Enqueue
<1> QED
  BY <1>1, <1>3 DEF QueueTypeOK, Enqueue

LEMMA MoveType ==
  ASSUME QueueTypeOK, MoveToProcessing
  PROVE  QueueTypeOK' /\ Head(pending) \in Raw
<1>1. Head(pending) \in Raw /\ Tail(pending) \in Seq(Raw)
  BY HeadTailProperties DEF QueueTypeOK, MoveToProcessing
<1> QED
  BY <1>1, BagTypes DEF QueueTypeOK, MoveToProcessing

LEMMA LeaseType ==
  ASSUME QueueTypeOK, NEW r,
         AddLease(r) \/ EnsureLease(r) \/ RemoveLease(r) \/ LeaseExpires(r)
  PROVE  QueueTypeOK'
BY DEF QueueTypeOK, listVars, AddLease, EnsureLease, RemoveLease, LeaseExpires

LEMMA AcknowledgeType ==
  ASSUME QueueTypeOK, NEW r \in Raw, Acknowledge(r) \/ DropCompleted(r)
  PROVE  QueueTypeOK'
<1>1. LRem(processing, r) \in [Raw -> Nat] /\ r.id \in Jobs
  BY BagTypes, RawFields DEF QueueTypeOK
<1>2. CASE Acknowledge(r)
  BY <1>1, <1>2 DEF QueueTypeOK, Acknowledge
<1>3. CASE DropCompleted(r)
  BY <1>1, <1>3 DEF QueueTypeOK, DropCompleted
<1> QED
  BY <1>2, <1>3

LEMMA RetryType ==
  ASSUME QueueTypeOK, NEW r \in Raw, RetryOrDeadLetter(r)
  PROVE  QueueTypeOK'
<1> DEFINE next == Retried(r)
<1>1. LRem(processing, r) \in [Raw -> Nat] /\ Push(dead, next) \in [Raw -> Nat]
  BY BagTypes DEF QueueTypeOK
<1>2. next.attempts <= MaxRetries => Append(pending, next) \in Seq(Raw)
  BY RetriedType, AppendProperties DEF QueueTypeOK
<1>3. pending' \in Seq(Raw) /\ dead' \in [Raw -> Nat]
  <2> HIDE DEF next
  <2>1. CASE next.attempts <= MaxRetries
    BY <1>2, <2>1 DEF QueueTypeOK, RetryOrDeadLetter, next
  <2>2. CASE ~(next.attempts <= MaxRetries)
    BY <1>1, <2>2 DEF QueueTypeOK, RetryOrDeadLetter, next
  <2> QED
    BY <2>1, <2>2
<1> QED
  BY <1>1, <1>3 DEF QueueTypeOK, RetryOrDeadLetter

LEMMA ClearType ==
  ASSUME QueueTypeOK, Clear
  PROVE  QueueTypeOK'
<1>1. Live \subseteq Jobs
  BY RawFields DEF Live, QueueTypeOK, Elements, Processing, Dead
<1> QED
  BY <1>1 DEF QueueTypeOK, Clear, EmptyBag

LEMMA MarkerType ==
  ASSUME QueueTypeOK, NEW j, MarkerExpires(j)
  PROVE  QueueTypeOK'
BY DEF QueueTypeOK, listVars, MarkerExpires

-----------------------------------------------------------------------------
(* Type correctness *)

LEMMA TouchType ==
  ASSUME TypeOK, NEW p, TouchProcessing(p)
  PROVE  dirty' \subseteq Workers
BY DEF TypeOK, TouchProcessing

LEMMA InitType == Init => TypeInv
<1> SUFFICES ASSUME Init PROVE TypeInv
  OBVIOUS
<1>1. QueueTypeOK
  BY DEF Init, QueueInit, QueueTypeOK, EmptyBag
<1>2. TypeOK
  BY <1>1, ProcsAssumption DEF Init, TypeOK, Steps
<1> QED
  BY <1>2 DEF TypeInv, JobHeld, Init

\* The steps of a worker that leave every key of the queue alone.
LEMMA LocalStepType ==
  ASSUME TypeInv, NEW w \in Workers,
         \/ BeginRecovery(w) \/ FetchStale(w) \/ CheckStale(w) \/ EndRecovery(w)
         \/ WatchProcessing(w) \/ ExecConflict(w) \/ NothingPending(w)
         \/ CheckCompleted(w) \/ ProcessFails(w)
  PROVE  TypeInv'
<1> USE DEF TypeInv, TypeOK, JobHeld, Procs, Goto, Hold, Steps
<1>0. QueueTypeOK'
  BY DEF QueueTypeOK, queueVars, BeginRecovery, FetchStale, CheckStale, EndRecovery,
         WatchProcessing, ExecConflict, NothingPending, CheckCompleted, ProcessFails
<1>1. CASE BeginRecovery(w)
  BY <1>0, <1>1 DEF BeginRecovery, Processing
<1>2. CASE FetchStale(w)
  BY <1>0, <1>2 DEF FetchStale, Expired
<1>3. CASE CheckStale(w)
  BY <1>0, <1>3 DEF CheckStale
<1>4. CASE EndRecovery(w)
  BY <1>0, <1>4 DEF EndRecovery
<1>5. CASE WatchProcessing(w)
  BY <1>0, <1>5 DEF WatchProcessing
<1>6. CASE ExecConflict(w)
  BY <1>0, <1>6 DEF ExecConflict
<1>7. CASE NothingPending(w)
  BY <1>0, <1>7 DEF NothingPending
<1>8. CASE CheckCompleted(w)
  BY <1>0, <1>8 DEF CheckCompleted
<1>9. CASE ProcessFails(w)
  BY <1>0, <1>9 DEF ProcessFails
<1> QED
  BY <1>1, <1>2, <1>3, <1>4, <1>5, <1>6, <1>7, <1>8, <1>9

\* The steps that write the lease set only.
LEMMA LeaseStepType ==
  ASSUME TypeInv,
         \/ \E w \in Workers : EnsureOneLease(w) \/ Missing(w)
         \/ \E p \in Procs : RecordLease(p)
         \/ \E r \in Raw : Lapse(r)
  PROVE  TypeInv'
<1>1. QueueTypeOK'
  BY LeaseType DEF TypeInv, TypeOK, EnsureOneLease, Missing, RecordLease, Lapse
<1> USE DEF TypeInv, TypeOK, JobHeld, Procs, Goto, Hold, Steps
<1>2. CASE \E w \in Workers : EnsureOneLease(w)
  BY <1>1, <1>2 DEF EnsureOneLease
<1>3. CASE \E w \in Workers : Missing(w)
  BY <1>1, <1>3 DEF Missing, EndRetry
<1>4. CASE \E p \in Procs : RecordLease(p)
  BY <1>1, <1>4 DEF RecordLease
<1>5. CASE \E r \in Raw : Lapse(r)
  BY <1>1, <1>5 DEF Lapse, procVars
<1> QED
  BY <1>2, <1>3, <1>4, <1>5

\* The steps that move jobs between the lists.
LEMMA MoveStepType ==
  ASSUME TypeInv,
         \/ \E p \in Procs : Reserve(p) \/ Ack(p)
         \/ \E w \in Workers :
              DropStale(w) \/ ExecRetry(w) \/ ExecReplyLost(w) \/ AckError(w)
  PROVE  TypeInv'
<1>1. CASE \E p \in Procs : Reserve(p)
  <2> PICK p \in Procs : Reserve(p)
    BY <1>1
  <2>1. QueueTypeOK' /\ Head(pending) \in Raw
    BY MoveType DEF Reserve, TypeInv, TypeOK
  <2>2. dirty' \subseteq Workers
    BY TouchType DEF Reserve, TypeInv
  <2> QED
    BY <2>1, <2>2 DEF Reserve, TypeInv, TypeOK, JobHeld, Goto, Hold, Steps
<1>2. CASE \E p \in Procs : Ack(p)
  <2> PICK p \in Procs : Ack(p)
    BY <1>2
  <2>1. job[p] \in Raw
    BY DEF Ack, TypeInv, JobHeld
  <2>2. QueueTypeOK'
    BY <2>1, AcknowledgeType DEF Ack, TypeInv, TypeOK
  <2>3. dirty' \subseteq Workers
    BY TouchType DEF Ack, TypeInv
  <2> QED
    BY <2>2, <2>3 DEF Ack, Finish, TypeInv, TypeOK, JobHeld, Goto, Hold, Steps
<1>3. ASSUME NEW w \in Workers,
             DropStale(w) \/ ExecRetry(w) \/ ExecReplyLost(w) \/ AckError(w)
      PROVE  TypeInv'
  <2>1. w \in Procs /\ job[w] \in Raw
    BY <1>3 DEF DropStale, ExecRetry, ExecReplyLost, AckError, TypeInv, JobHeld, Procs
  <2>2. CASE DropStale(w)
    <3>1. QueueTypeOK'
      BY <2>1, <2>2, AcknowledgeType DEF DropStale, TypeInv, TypeOK
    <3>2. dirty' \subseteq Workers
      BY <2>2, TouchType DEF DropStale, TypeInv
    <3> QED
      BY <2>1, <2>2, <3>1, <3>2 DEF DropStale, TypeInv, TypeOK, JobHeld, Goto, Hold, Steps
  <2>3. CASE ExecRetry(w)
    <3>1. QueueTypeOK'
      BY <2>1, <2>3, RetryType DEF ExecRetry, TypeInv, TypeOK
    <3>2. dirty' \subseteq Workers
      BY <2>3, TouchType DEF ExecRetry, TypeInv
    <3> QED
      BY <2>1, <2>3, <3>1, <3>2
         DEF ExecRetry, EndRetry, TypeInv, TypeOK, JobHeld, Goto, Hold, Steps
  <2>4. CASE ExecReplyLost(w)
    <3>1. QueueTypeOK'
      BY <2>1, <2>4, RetryType DEF ExecReplyLost, TypeInv, TypeOK
    <3>2. dirty' \subseteq Workers
      BY <2>4, TouchType DEF ExecReplyLost, TypeInv
    <3> QED
      BY <2>1, <2>4, <3>1, <3>2, ProcsAssumption
         DEF ExecReplyLost, TypeInv, TypeOK, JobHeld, Goto, Steps
  <2>5. CASE AckError(w)
    <3>1. QueueTypeOK'
      BY <2>1, <2>5, AcknowledgeType DEF AckError, TypeInv, TypeOK, QueueTypeOK, queueVars
    <3>2. dirty' \subseteq Workers
      BY <2>5, TouchType DEF AckError, TypeInv, TypeOK
    <3> QED
      BY <2>1, <2>5, <3>1, <3>2, ProcsAssumption
         DEF AckError, TypeInv, TypeOK, JobHeld, Goto, Steps
  <2> QED
    BY <1>3, <2>2, <2>3, <2>4, <2>5
<1> QED
  BY <1>1, <1>2, <1>3

\* The steps of the environment.
LEMMA EnvironmentType ==
  ASSUME TypeInv,
         Join \/ Reset \/ (\E p \in Procs : Crash(p)) \/ (\E j \in Jobs : Forget(j))
  PROVE  TypeInv'
<1>1. CASE Join
  <2>1. QueueTypeOK'
    BY <1>1, EnqueueType DEF Join, TypeInv, TypeOK
  <2> QED
    BY <1>1, <2>1 DEF Join, procVars, TypeInv, TypeOK, JobHeld
<1>2. CASE Reset
  <2>1. QueueTypeOK'
    BY <1>2, ClearType DEF Reset, TypeInv, TypeOK
  <2> QED
    BY <1>2, <2>1, ProcsAssumption DEF Reset, TypeInv, TypeOK, JobHeld
<1>3. CASE \E p \in Procs : Crash(p)
  <2>1. QueueTypeOK'
    BY <1>3 DEF Crash, TypeInv, TypeOK, QueueTypeOK, queueVars
  <2> QED
    BY <1>3, <2>1, ProcsAssumption
       DEF Crash, Finish, Goto, Hold, TypeInv, TypeOK, JobHeld, Steps
<1>4. CASE \E j \in Jobs : Forget(j)
  <2>1. QueueTypeOK'
    BY <1>4, MarkerType DEF Forget, TypeInv, TypeOK
  <2> QED
    BY <1>4, <2>1, ProcsAssumption DEF Forget, procVars, TypeInv, TypeOK, JobHeld
<1> QED
  BY <1>1, <1>2, <1>3, <1>4

LEMMA NextType == TypeInv /\ [Next]_vars => TypeInv'
<1> SUFFICES ASSUME TypeInv, [Next]_vars PROVE TypeInv'
  OBVIOUS
<1>1. CASE UNCHANGED vars
  BY <1>1 DEF vars, queueVars, procVars, TypeInv, TypeOK, QueueTypeOK, JobHeld
<1>2. CASE Next
  BY <1>2, LocalStepType, LeaseStepType, MoveStepType, EnvironmentType
     DEF Next, WorkerStep, HandlerStep, Fault, Procs
<1> QED
  BY <1>1, <1>2

\* Every key of the queue and every process keeps its type, and a process
\* about to touch a reservation holds one (queue_service.py, worker.py).
THEOREM TypeCorrect == Spec => []TypeOK
<1>1. Spec => []TypeInv
  BY InitType, NextType, PTL DEF Spec
<1>2. TypeInv => TypeOK
  BY DEF TypeInv
<1> QED
  BY <1>1, <1>2, PTL

-----------------------------------------------------------------------------
(* What a process knows between reading and writing *)

\* A completed marker belongs to an acknowledged job; a member found completed
\* stays acknowledged even if its marker expires; and an unbroken WATCH means
\* that the job is still listed.
StepInv ==
  /\ completed \subseteq acked
  /\ \A w \in Workers : pc[w] = "drop" => job[w].id \in acked
  /\ \A w \in Workers : (pc[w] = "exec" /\ w \notin dirty) => job[w] \in Processing

LEMMA InitStep == Init => StepInv
BY ProcsAssumption DEF Init, QueueInit, StepInv, Procs

\* A step that writes the processing list under TouchProcessing(p) cannot break
\* what the other workers know, and acknowledgements are never withdrawn.
LEMMA TouchStep ==
  ASSUME TypeInv, StepInv, NEW p \in Procs, TouchProcessing(p),
         completed' \subseteq acked', acked \subseteq acked',
         \A w \in Workers \ {p} : pc'[w] = pc[w] /\ job'[w] = job[w],
         p \in Workers => pc'[p] \notin {"drop", "exec"}
  PROVE  StepInv'
<1>1. ASSUME NEW w \in Workers, pc'[w] = "drop"
      PROVE  job'[w].id \in acked'
  BY <1>1 DEF StepInv
<1>2. ASSUME NEW w \in Workers, pc'[w] = "exec", w \notin dirty'
      PROVE  (job[w] \in Processing)' 
  <2>1. w # p /\ pc[w] = "exec" /\ job'[w] = job[w]
    BY <1>2
  <2>2. processing' = processing /\ w \notin dirty
    BY <1>2, <2>1 DEF TouchProcessing
  <2> QED
    BY <2>1, <2>2 DEF StepInv, Processing
<1> QED
  BY <1>1, <1>2 DEF StepInv

\* The same for steps that leave the lists and every WATCH alone.
LEMMA QuietStep ==
  ASSUME TypeInv, StepInv, NEW p \in Procs,
         processing' = processing, completed' \subseteq acked', acked' = acked,
         dirty \ {p} \subseteq dirty',
         \A w \in Workers \ {p} : pc'[w] = pc[w] /\ job'[w] = job[w],
         p \in Workers =>
           /\ pc'[p] = "drop" => job'[p].id \in acked
           /\ pc'[p] = "exec" => job'[p] \in Processing
  PROVE  StepInv'
<1>1. ASSUME NEW w \in Workers, pc'[w] = "drop"
      PROVE  job'[w].id \in acked'
  BY <1>1 DEF StepInv
<1>2. ASSUME NEW w \in Workers, pc'[w] = "exec", w \notin dirty'
      PROVE  (job[w] \in Processing)'
  <2>1. CASE w = p
    BY <1>2, <2>1 DEF Processing
  <2>2. CASE w # p
    BY <1>2, <2>2 DEF StepInv, Processing
  <2> QED
    BY <2>1, <2>2
<1> QED
  BY <1>1, <1>2 DEF StepInv

LEMMA NextStep == TypeInv /\ StepInv /\ [Next]_vars => StepInv'
<1> SUFFICES ASSUME TypeInv, StepInv, [Next]_vars PROVE StepInv'
  OBVIOUS
<1>1. CASE UNCHANGED vars
  BY <1>1 DEF vars, queueVars, procVars, StepInv, Processing
<1> USE DEF Goto, Hold, Procs, TypeInv, TypeOK, QueueTypeOK
<1>2. ASSUME NEW w \in Workers,
             \/ BeginRecovery(w) \/ FetchStale(w) \/ CheckStale(w) \/ EndRecovery(w)
             \/ WatchProcessing(w) \/ ExecConflict(w) \/ NothingPending(w)
             \/ CheckCompleted(w) \/ ProcessFails(w)
      PROVE  StepInv'
  <2>1. processing' = processing /\ completed' = completed /\ acked' = acked
    BY <1>2 DEF queueVars, BeginRecovery, FetchStale, CheckStale, EndRecovery,
         WatchProcessing, ExecConflict, NothingPending, CheckCompleted, ProcessFails
  <2>2. dirty \ {w} \subseteq dirty'
    BY <1>2 DEF BeginRecovery, FetchStale, CheckStale, EndRecovery,
         WatchProcessing, ExecConflict, NothingPending, CheckCompleted, ProcessFails
  <2>3. \A q \in Workers \ {w} : pc'[q] = pc[q] /\ job'[q] = job[q]
    BY <1>2 DEF BeginRecovery, FetchStale, CheckStale, EndRecovery,
         WatchProcessing, ExecConflict, NothingPending, CheckCompleted, ProcessFails
  <2>4. pc'[w] = "drop" => job'[w].id \in acked
    BY <1>2 DEF StepInv, BeginRecovery, FetchStale, CheckStale, EndRecovery,
         WatchProcessing, ExecConflict, NothingPending, CheckCompleted, ProcessFails
  <2>5. pc'[w] = "exec" => job'[w] \in Processing
    BY <1>2 DEF BeginRecovery, FetchStale, CheckStale, EndRecovery,
         WatchProcessing, ExecConflict, NothingPending, CheckCompleted, ProcessFails
  <2> QED
    BY <2>1, <2>2, <2>3, <2>4, <2>5, QuietStep DEF StepInv
<1>3. ASSUME NEW w \in Workers, EnsureOneLease(w) \/ Missing(w)
      PROVE  StepInv'
  BY <1>3 DEF EnsureOneLease, Missing, EndRetry, EnsureLease, RemoveLease, listVars,
       StepInv, Processing
<1>4. ASSUME NEW p \in Procs, RecordLease(p)
      PROVE  StepInv'
  BY <1>4 DEF RecordLease, AddLease, listVars, StepInv, Processing
<1>5. ASSUME NEW r \in Raw, Lapse(r)
      PROVE  StepInv'
  BY <1>5 DEF Lapse, LeaseExpires, listVars, procVars, StepInv, Processing
<1>6. ASSUME NEW p \in Procs, Reserve(p)
      PROVE  StepInv'
  BY <1>6, TouchStep DEF Reserve, MoveToProcessing, StepInv
<1>7. ASSUME NEW p \in Procs, Ack(p)
      PROVE  StepInv'
  BY <1>7, TouchStep DEF Ack, Finish, Acknowledge, StepInv
<1>8. ASSUME NEW w \in Workers, DropStale(w)
      PROVE  StepInv'
  BY <1>8, TouchStep DEF DropStale, DropCompleted, StepInv
<1>9. ASSUME NEW w \in Workers, ExecRetry(w)
      PROVE  StepInv'
  BY <1>9, TouchStep DEF ExecRetry, EndRetry, RetryOrDeadLetter, StepInv
<1>10. ASSUME NEW w \in Workers, ExecReplyLost(w)
       PROVE  StepInv'
  BY <1>10, TouchStep DEF ExecReplyLost, RetryOrDeadLetter, StepInv
<1>11. ASSUME NEW w \in Workers, AckError(w)
       PROVE  StepInv'
  <2>1. CASE Acknowledge(job[w]) /\ TouchProcessing(w)
    BY <1>11, <2>1, TouchStep DEF AckError, Acknowledge, StepInv
  <2>2. CASE UNCHANGED <<queueVars, dirty>>
    BY <1>11, <2>2, QuietStep DEF AckError, queueVars, StepInv
  <2> QED
    BY <1>11, <2>1, <2>2 DEF AckError
<1>12. ASSUME NEW p \in Procs, Crash(p)
       PROVE  StepInv'
  BY <1>12, QuietStep DEF Crash, Finish, queueVars, StepInv
<1>13. CASE Join
  BY <1>13 DEF Join, Enqueue, procVars, StepInv, Processing
<1>14. CASE Reset
  BY <1>14 DEF Reset, Clear, StepInv, Processing
<1>15. ASSUME NEW j \in Jobs, Forget(j)
       PROVE  StepInv'
  BY <1>15 DEF Forget, MarkerExpires, listVars, procVars, StepInv, Processing
<1>16. CASE Next
  BY <1>16, <1>2, <1>3, <1>4, <1>5, <1>6, <1>7, <1>8, <1>9, <1>10, <1>11, <1>12,
     <1>13, <1>14, <1>15 DEF Next, WorkerStep, HandlerStep, Fault
<1> QED
  BY <1>1, <1>16

-----------------------------------------------------------------------------
(* The queue as its own state machine *)

\* Seen from Redis, every step of the system is one of these: what a process
\* knows when it writes is part of the step.
QueueNext ==
  \/ \E batch \in Batches : Enqueue(batch)
  \/ MoveToProcessing
  \/ \E r \in Raw : Acknowledge(r)
  \/ \E r \in Raw : r.id \in acked /\ DropCompleted(r)
  \/ \E r \in Processing : RetryOrDeadLetter(r)
  \/ Clear
  \/ UNCHANGED <<listVars, accepted, acked, cleared>>

LEMMA QueueStep == TypeInv /\ StepInv /\ [Next]_vars => QueueNext
<1> SUFFICES ASSUME TypeInv, StepInv, [Next]_vars PROVE QueueNext
  OBVIOUS
<1>1. CASE UNCHANGED vars
  BY <1>1 DEF vars, queueVars, listVars, QueueNext
<1>2. ASSUME NEW w \in Workers,
             \/ BeginRecovery(w) \/ FetchStale(w) \/ CheckStale(w) \/ EndRecovery(w)
             \/ WatchProcessing(w) \/ ExecConflict(w) \/ NothingPending(w)
             \/ CheckCompleted(w) \/ ProcessFails(w)
      PROVE  QueueNext
  BY <1>2 DEF QueueNext, queueVars, listVars, BeginRecovery, FetchStale, CheckStale,
       EndRecovery, WatchProcessing, ExecConflict, NothingPending, CheckCompleted,
       ProcessFails
<1>3. ASSUME NEW w \in Workers, EnsureOneLease(w) \/ Missing(w)
      PROVE  QueueNext
  BY <1>3 DEF EnsureOneLease, Missing, EnsureLease, RemoveLease, QueueNext
<1>4. ASSUME NEW p \in Procs, RecordLease(p)
      PROVE  QueueNext
  BY <1>4 DEF RecordLease, AddLease, QueueNext
<1>5. CASE (\E r \in Raw : Lapse(r)) \/ (\E j \in Jobs : Forget(j))
  BY <1>5 DEF Lapse, LeaseExpires, Forget, MarkerExpires, QueueNext
<1>6. ASSUME NEW p \in Procs, Reserve(p)
      PROVE  QueueNext
  BY <1>6 DEF Reserve, QueueNext
<1>7. ASSUME NEW p \in Procs, Ack(p)
      PROVE  QueueNext
  BY <1>7 DEF Ack, TypeInv, JobHeld, QueueNext
<1>8. ASSUME NEW w \in Workers, DropStale(w)
      PROVE  QueueNext
  BY <1>8 DEF DropStale, TypeInv, JobHeld, StepInv, QueueNext, Procs
<1>9. ASSUME NEW w \in Workers, ExecRetry(w) \/ ExecReplyLost(w)
      PROVE  QueueNext
  BY <1>9 DEF ExecRetry, ExecReplyLost, StepInv, QueueNext
<1>10. ASSUME NEW w \in Workers, AckError(w)
       PROVE  QueueNext
  BY <1>10 DEF AckError, TypeInv, JobHeld, queueVars, listVars, QueueNext, Procs
<1>11. CASE \E p \in Procs : Crash(p)
  BY <1>11 DEF Crash, queueVars, listVars, QueueNext
<1>12. CASE Join \/ Reset
  BY <1>12 DEF Join, Reset, QueueNext
<1>13. CASE Next
  BY <1>13, <1>2, <1>3, <1>4, <1>5, <1>6, <1>7, <1>8, <1>9, <1>10, <1>11, <1>12
     DEF Next, WorkerStep, HandlerStep, Fault, Procs
<1> QED
  BY <1>1, <1>13

-----------------------------------------------------------------------------
(* Nothing is lost, nothing comes back *)

\* NoLoss and ResetIsFinal need to know that the lists hold accepted jobs only,
\* so that a batch of new ids cannot collide with a cleared one, and that a
\* reserved job's next attempt still is a member of Raw (AttemptsBounded).
CustodyInv ==
  /\ NoLoss
  /\ ResetIsFinal
  /\ AttemptsBounded
  /\ Live \subseteq accepted
  /\ cleared \subseteq accepted

LEMMA InitCustody == Init => CustodyInv
<1> SUFFICES ASSUME Init PROVE CustodyInv
  OBVIOUS
<1>1. Elements(pending) = {} /\ Processing = {} /\ Dead = {}
  BY DEF Init, QueueInit, EmptyBag, Elements, Processing, Dead
<1> QED
  BY <1>1 DEF Init, QueueInit, CustodyInv, NoLoss, ResetIsFinal, AttemptsBounded, Live

\* What each operation does to the contents of the lists.
LEMMA EnqueueContents ==
  ASSUME QueueTypeOK, NEW batch \in Batches, Enqueue(batch)
  PROVE  /\ Elements(pending)' =
              Elements(pending) \cup {NewJob(batch[i]) : i \in DOMAIN batch}
         /\ Processing' = Processing /\ Dead' = Dead
<1>1. PICK n \in 1..MaxBatch : batch \in [1..n -> Jobs \ accepted]
  BY DEF Batches
<1> DEFINE new == [i \in DOMAIN batch |-> NewJob(batch[i])]
<1>2. new \in Seq(Raw) /\ Len(new) = n /\ DOMAIN batch = 1..n /\ n \in Nat
  BY <1>1, NewJobType, QueueAssumption
<1>3. pending' = pending \o new /\ pending \in Seq(Raw)
  BY DEF Enqueue, QueueTypeOK
<1> HIDE DEF new
<1>4. /\ Len(pending') = Len(pending) + n
      /\ \A i \in 1..Len(pending) + n :
           pending'[i] = IF i <= Len(pending) THEN pending[i] ELSE new[i - Len(pending)]
  BY <1>2, <1>3, ConcatProperties
<1>5. \A i \in 1..n : new[i] = pending'[Len(pending) + i]
  BY <1>2, <1>3, <1>4
<1>6. Elements(pending)' = Elements(pending) \cup {new[i] : i \in 1..n}
  <2>1. ASSUME NEW x \in Elements(pending)'
        PROVE  x \in Elements(pending) \cup {new[i] : i \in 1..n}
    <3>1. PICK i \in 1..Len(pending') : x = pending'[i]
      BY DEF Elements
    <3>2. CASE i <= Len(pending)
      BY <1>3, <1>4, <3>1, <3>2 DEF Elements
    <3>3. CASE ~(i <= Len(pending))
      BY <1>2, <1>3, <1>4, <3>1, <3>3
    <3> QED
      BY <3>2, <3>3
  <2>2. ASSUME NEW x \in Elements(pending)
        PROVE  x \in Elements(pending)'
    BY <1>2, <1>3, <1>4 DEF Elements
  <2>3. ASSUME NEW i \in 1..n
        PROVE  new[i] \in Elements(pending)'
    <3>1. /\ Len(pending) + i \in 1..Len(pending')
          /\ new[i] = pending'[Len(pending) + i]
      BY <1>2, <1>3, <1>4, <1>5, LenProperties
    <3> QED
      BY <3>1 DEF Elements
  <2> QED
    BY <2>1, <2>2, <2>3
<1>7. {new[i] : i \in 1..n} = {NewJob(batch[i]) : i \in DOMAIN batch}
  BY <1>2 DEF new
<1> QED
  BY <1>6, <1>7 DEF Enqueue, Processing, Dead

LEMMA MoveContents ==
  ASSUME QueueTypeOK, MoveToProcessing
  PROVE  /\ Head(pending) \in Elements(pending)
         /\ Elements(pending)' \subseteq Elements(pending)
         /\ Elements(pending) \subseteq Elements(pending)' \cup {Head(pending)}
         /\ Processing' = Processing \cup {Head(pending)}
         /\ Dead' = Dead
<1>1. /\ pending \in Seq(Raw) /\ pending # <<>> /\ pending' = Tail(pending)
      /\ Head(pending) \in Raw
  BY MoveType DEF QueueTypeOK, MoveToProcessing
<1>2. /\ Len(pending) \in Nat /\ Len(pending) >= 1
      /\ Len(pending') = Len(pending) - 1
      /\ Head(pending) = pending[1]
      /\ \A i \in 1..Len(pending') : pending'[i] = pending[i + 1]
  BY <1>1, EmptySeq, LenProperties, HeadTailProperties
<1>3. Head(pending) \in Elements(pending) /\ Elements(pending)' \subseteq Elements(pending)
  BY <1>2 DEF Elements
<1>4. ASSUME NEW i \in 1..Len(pending)
      PROVE  pending[i] \in Elements(pending)' \cup {Head(pending)}
  <2>1. CASE i = 1
    BY <1>2, <2>1
  <2>2. CASE i # 1
    <3>1. i - 1 \in 1..Len(pending') /\ (i - 1) + 1 = i
      BY <1>2, <2>2
    <3> QED
      BY <1>2, <3>1 DEF Elements
  <2> QED
    BY <2>1, <2>2
<1>5. Processing' = Processing \cup {Head(pending)}
  BY <1>1 DEF MoveToProcessing, QueueTypeOK, Processing, Push
<1> QED
  BY <1>3, <1>4, <1>5 DEF Elements, MoveToProcessing, Dead

LEMMA RemoveContents ==
  ASSUME QueueTypeOK, NEW r \in Raw, processing' = LRem(processing, r)
  PROVE  Processing' \subseteq Processing /\ Processing \subseteq Processing' \cup {r}
BY DEF QueueTypeOK, LRem, Processing

LEMMA RetryContents ==
  ASSUME QueueTypeOK, NEW r \in Processing, RetryOrDeadLetter(r),
         r.attempts <= MaxRetries
  PROVE  /\ Retried(r) \in Raw /\ Retried(r).id = r.id
         /\ Retried(r).attempts = r.attempts + 1
         /\ Processing' \subseteq Processing /\ Processing \subseteq Processing' \cup {r}
         /\ \/ /\ r.attempts < MaxRetries
               /\ Elements(pending)' = Elements(pending) \cup {Retried(r)}
               /\ Dead' = Dead
            \/ /\ r.attempts = MaxRetries
               /\ Elements(pending)' = Elements(pending)
               /\ Dead' = Dead \cup {Retried(r)}
<1> DEFINE next == Retried(r)
<1>1. r \in Raw /\ r.attempts \in Nat /\ MaxRetries \in Nat
  BY RawFields, QueueAssumption DEF Processing
<1>2. next \in Raw /\ next.id = r.id /\ next.attempts = r.attempts + 1
  BY <1>1 DEF Retried, Raw
<1>3. Processing' \subseteq Processing /\ Processing \subseteq Processing' \cup {r}
  BY <1>1, RemoveContents DEF RetryOrDeadLetter
<1> HIDE DEF next
<1>4. CASE r.attempts < MaxRetries
  <2>1. pending' = Append(pending, next) /\ dead' = dead /\ pending \in Seq(Raw)
    BY <1>1, <1>2, <1>4 DEF RetryOrDeadLetter, QueueTypeOK, next
  <2>2. /\ Len(pending') = Len(pending) + 1 /\ Len(pending) \in Nat
        /\ \A i \in 1..Len(pending) : pending'[i] = pending[i]
        /\ pending'[Len(pending) + 1] = next
    BY <1>2, <2>1, AppendProperties, LenProperties
  <2>3. Elements(pending)' = Elements(pending) \cup {next}
    <3>1. ASSUME NEW i \in 1..Len(pending')
          PROVE  pending'[i] \in Elements(pending) \cup {next}
      <4>1. i \in 1..Len(pending) \/ i = Len(pending) + 1
        BY <2>2
      <4> QED
        BY <2>2, <4>1 DEF Elements
    <3>2. \A i \in 1..Len(pending) : i \in 1..Len(pending') /\ pending[i] = pending'[i]
      BY <2>2
    <3>3. next \in Elements(pending)'
      BY <2>2 DEF Elements
    <3> QED
      BY <3>1, <3>2, <3>3 DEF Elements
  <2> QED
    BY <1>2, <1>3, <1>4, <2>1, <2>3 DEF Dead, next
<1>5. CASE r.attempts = MaxRetries
  <2>1. pending' = pending /\ dead' = Push(dead, next)
    BY <1>1, <1>2, <1>5 DEF RetryOrDeadLetter, next
  <2>2. Dead' = Dead \cup {next}
    BY <1>2, <2>1 DEF QueueTypeOK, Dead, Push
  <2> QED
    BY <1>2, <1>3, <1>5, <2>1, <2>2 DEF next
<1> QED
  BY <1>1, <1>4, <1>5

LEMMA NextCustody == TypeInv /\ CustodyInv /\ QueueNext => CustodyInv'
<1> SUFFICES ASSUME TypeInv, CustodyInv, QueueNext PROVE CustodyInv'
  OBVIOUS
<1> USE DEF CustodyInv, NoLoss, ResetIsFinal, AttemptsBounded
<1>0. QueueTypeOK
  BY DEF TypeInv, TypeOK
<1>1. ASSUME NEW batch \in Batches, Enqueue(batch)
      PROVE  CustodyInv'
  <2> DEFINE ids == {batch[i] : i \in DOMAIN batch}
             jobs == {NewJob(batch[i]) : i \in DOMAIN batch}
  <2>1. ids \cap accepted = {}
    BY DEF Batches
  <2>2. /\ Elements(pending)' = Elements(pending) \cup jobs
        /\ Processing' = Processing /\ Dead' = Dead
    BY <1>0, <1>1, EnqueueContents
  <2>3. /\ \A r \in jobs : r.id \in ids /\ r.attempts = 0
        /\ \A j \in ids : \E r \in jobs : r.id = j
    <3>1. \A j : NewJob(j).id = j /\ NewJob(j).attempts = 0
      BY DEF NewJob
    <3>2. ASSUME NEW r \in jobs
          PROVE  r.id \in ids /\ r.attempts = 0
      <4>1. PICK i \in DOMAIN batch : r = NewJob(batch[i])
        OBVIOUS
      <4> QED
        BY <3>1, <4>1
    <3>3. ASSUME NEW j \in ids
          PROVE  \E r \in jobs : r.id = j
      <4>1. PICK i \in DOMAIN batch : j = batch[i]
        OBVIOUS
      <4>2. NewJob(batch[i]) \in jobs
        OBVIOUS
      <4> QED
        BY <3>1, <4>1, <4>2
    <3> QED
      BY <3>2, <3>3
  <2>4. accepted' = accepted \cup ids /\ acked' = acked /\ cleared' = cleared
    BY <1>1 DEF Enqueue
  <2> HIDE DEF ids, jobs
  <2>5. Live' = Live \cup ids
    BY <2>2, <2>3 DEF Live
  <2>6. \A r \in Elements(pending)' \cup Processing' : r.attempts <= MaxRetries
    BY <2>2, <2>3, QueueAssumption
  <2> QED
    BY <2>1, <2>2, <2>4, <2>5, <2>6
<1>2. CASE MoveToProcessing
  <2>1. /\ Elements(pending)' \cup Processing' = Elements(pending) \cup Processing
        /\ Dead' = Dead
    BY <1>0, <1>2, MoveContents
  <2>2. Live' = Live
    BY <2>1 DEF Live
  <2> QED
    BY <1>2, <2>1, <2>2 DEF MoveToProcessing
<1>3. ASSUME NEW r \in Raw, Acknowledge(r) \/ (r.id \in acked /\ DropCompleted(r))
      PROVE  CustodyInv'
  <2>1. /\ pending' = pending /\ dead' = dead /\ processing' = LRem(processing, r)
        /\ accepted' = accepted /\ cleared' = cleared
        /\ acked \subseteq acked' /\ r.id \in acked'
    BY <1>3 DEF Acknowledge, DropCompleted
  <2>2. /\ Elements(pending)' = Elements(pending) /\ Dead' = Dead
        /\ Processing' \subseteq Processing /\ Processing \subseteq Processing' \cup {r}
    BY <1>0, <2>1, RemoveContents DEF Elements, Dead
  <2>3. Live' \subseteq Live /\ Live \subseteq Live' \cup {r.id}
    BY <2>2 DEF Live
  <2> QED
    BY <2>1, <2>2, <2>3
<1>4. ASSUME NEW r \in Processing, RetryOrDeadLetter(r)
      PROVE  CustodyInv'
  <2>1. r.attempts <= MaxRetries
    OBVIOUS
  <2>2. /\ Retried(r) \in Raw /\ Retried(r).id = r.id
        /\ Retried(r).attempts = r.attempts + 1
        /\ Processing' \subseteq Processing /\ Processing \subseteq Processing' \cup {r}
        /\ \/ /\ r.attempts < MaxRetries
              /\ Elements(pending)' = Elements(pending) \cup {Retried(r)}
              /\ Dead' = Dead
           \/ /\ r.attempts = MaxRetries
              /\ Elements(pending)' = Elements(pending)
              /\ Dead' = Dead \cup {Retried(r)}
    BY <1>0, <1>4, <2>1, RetryContents
  <2>3. accepted' = accepted /\ acked' = acked /\ cleared' = cleared
    BY <1>4 DEF RetryOrDeadLetter
  <2>4. Live' = Live
    BY <2>2 DEF Live
  <2>5. r.attempts \in Nat /\ MaxRetries \in Nat
    BY RawFields, QueueAssumption DEF Processing
  <2>6. /\ \A s \in Elements(pending)' \cup Processing' : s.attempts <= MaxRetries
        /\ \A s \in Dead' : s.attempts = MaxRetries + 1
    BY <2>2, <2>5
  <2> QED
    BY <2>3, <2>4, <2>6
<1>5. CASE Clear
  <2>1. Elements(pending)' = {} /\ Processing' = {} /\ Dead' = {}
    BY <1>5 DEF Clear, EmptyBag, Elements, Processing, Dead
  <2>2. Live' = {}
    BY <2>1 DEF Live
  <2> QED
    BY <1>5, <2>1, <2>2 DEF Clear
<1>6. CASE UNCHANGED <<listVars, accepted, acked, cleared>>
  BY <1>6 DEF listVars, Live, Elements, Processing, Dead
<1> QED
  BY <1>1, <1>2, <1>3, <1>4, <1>5, <1>6 DEF QueueNext

LEMMA CustodyHolds == Spec => []CustodyInv
<1>1. Init => TypeInv /\ StepInv /\ CustodyInv
  BY InitType, InitStep, InitCustody
<1>2. TypeInv /\ StepInv /\ CustodyInv /\ [Next]_vars
        => (TypeInv /\ StepInv /\ CustodyInv)'
  BY NextType, NextStep, QueueStep, NextCustody
<1> QED
  BY <1>1, <1>2, PTL DEF Spec

\* No accepted job leaves the three lists without an acknowledgement or a
\* reset, wherever the workers and handlers fail.
THEOREM NothingLost == Spec => []NoLoss
<1>1. CustodyInv => NoLoss
  BY DEF CustodyInv
<1> QED
  BY <1>1, CustodyHolds, PTL

\* A job deleted by DELETE /api/queue/reset never comes back, not from a worker
\* that was holding it, nor from a recovery pass that had seen it.
THEOREM ResetFinal == Spec => []ResetIsFinal
<1>1. CustodyInv => ResetIsFinal
  BY DEF CustodyInv
<1> QED
  BY <1>1, CustodyHolds, PTL

\* A job is dead-lettered after exactly one attempt more than max_retries.
THEOREM AttemptsCorrect == Spec => []AttemptsBounded
<1>1. CustodyInv => AttemptsBounded
  BY DEF CustodyInv
<1> QED
  BY <1>1, CustodyHolds, PTL

-----------------------------------------------------------------------------
(* One copy of each job *)

\* No other list holds the new ids, and a batch does not repeat one.
LEMMA EnqueueUnique ==
  ASSUME TypeInv, CustodyInv, SingleCopy, NEW batch \in Batches, Enqueue(batch)
  PROVE  SingleCopy'
<1>1. PICK n \in 1..MaxBatch : batch \in [1..n -> Jobs \ accepted]
  BY DEF Batches
<1>2. \A i, k \in 1..n : batch[i] = batch[k] => i = k
  BY <1>1 DEF Batches
<1> DEFINE new == [i \in DOMAIN batch |-> NewJob(batch[i])]
<1>3. /\ new \in Seq(Raw) /\ Len(new) = n /\ n \in Nat
      /\ \A i \in 1..n : new[i].id = batch[i] /\ new[i].id \notin accepted
  BY <1>1, NewJobType, QueueAssumption DEF NewJob
<1>4. pending' = pending \o new /\ pending \in Seq(Raw) /\ Len(pending) \in Nat
  BY LenProperties DEF Enqueue, TypeInv, TypeOK, QueueTypeOK
<1> HIDE DEF new
<1>5. /\ Len(pending') = Len(pending) + n
      /\ \A i \in 1..Len(pending) + n :
           pending'[i] = IF i <= Len(pending) THEN pending[i] ELSE new[i - Len(pending)]
  BY <1>3, <1>4, ConcatProperties
<1>6. \A i \in 1..Len(pending) : pending[i].id \in accepted
  BY DEF CustodyInv, Live, Elements
<1>7. ASSUME NEW i \in 1..Len(pending'), NEW k \in 1..Len(pending'),
             pending'[i].id = pending'[k].id
      PROVE  i = k
  <2>1. CASE i <= Len(pending) /\ k <= Len(pending)
    <3>1. i \in 1..Len(pending) /\ k \in 1..Len(pending)
      BY <1>4, <2>1
    <3> QED
      BY <1>5, <1>7, <2>1, <3>1, <1>4 DEF SingleCopy
  <2>2. CASE ~(i <= Len(pending)) /\ ~(k <= Len(pending))
    <3>1. /\ i - Len(pending) \in 1..n /\ k - Len(pending) \in 1..n
          /\ pending'[i] = new[i - Len(pending)] /\ pending'[k] = new[k - Len(pending)]
      BY <1>3, <1>4, <1>5, <2>2
    <3>2. i - Len(pending) = k - Len(pending)
      BY <1>2, <1>3, <1>7, <3>1
    <3> QED
      BY <1>4, <1>5, <1>3, <3>2
  <2>3. CASE i <= Len(pending) /\ ~(k <= Len(pending))
    <3>1. i \in 1..Len(pending) /\ k - Len(pending) \in 1..n
      BY <1>3, <1>4, <1>5, <2>3
    <3> QED
      BY <1>3, <1>4, <1>5, <1>6, <1>7, <2>3, <3>1
  <2>4. CASE ~(i <= Len(pending)) /\ k <= Len(pending)
    <3>1. k \in 1..Len(pending) /\ i - Len(pending) \in 1..n
      BY <1>3, <1>4, <1>5, <2>4
    <3> QED
      BY <1>3, <1>4, <1>5, <1>6, <1>7, <2>4, <3>1
  <2> QED
    BY <2>1, <2>2, <2>3, <2>4
<1>8. /\ Processing' = Processing /\ Dead' = Dead
      /\ processing' = processing /\ dead' = dead
  BY DEF Enqueue, Processing, Dead
<1>9. \A r \in Elements(pending)' : r \in Elements(pending) \/ r.id \notin accepted
  <2> SUFFICES ASSUME NEW r \in Elements(pending)'
               PROVE  r \in Elements(pending) \/ r.id \notin accepted
    OBVIOUS
  <2>1. PICK i \in 1..Len(pending') : r = pending'[i]
    BY DEF Elements
  <2>2. CASE i <= Len(pending)
    BY <1>4, <1>5, <2>1, <2>2 DEF Elements
  <2>3. CASE ~(i <= Len(pending))
    BY <1>3, <1>4, <1>5, <2>1, <2>3
  <2> QED
    BY <2>2, <2>3
<1>10. \A s \in Processing \cup Dead : s.id \in accepted
  BY DEF CustodyInv, Live
<1>11. \A r \in Elements(pending)', s \in Processing \cup Dead : r.id # s.id
  BY <1>9, <1>10 DEF SingleCopy
<1> QED
  BY <1>7, <1>8, <1>11 DEF SingleCopy

\* The head leaves the only place its id was in.
LEMMA MoveUnique ==
  ASSUME TypeInv, SingleCopy, MoveToProcessing
  PROVE  /\ SingleCopy'
         /\ \A r \in Elements(pending)' : r.id # Head(pending).id
<1> DEFINE h == Head(pending)
<1>1. /\ pending \in Seq(Raw) /\ pending # <<>> /\ pending' = Tail(pending)
      /\ h \in Raw
  BY MoveType DEF TypeInv, TypeOK, QueueTypeOK, MoveToProcessing
<1>2. /\ Len(pending) \in Nat /\ Len(pending) >= 1
      /\ Len(pending') = Len(pending) - 1
      /\ h = pending[1]
      /\ \A i \in 1..Len(pending') : pending'[i] = pending[i + 1]
  BY <1>1, EmptySeq, LenProperties, HeadTailProperties
<1>3. /\ h \in Elements(pending) /\ Elements(pending)' \subseteq Elements(pending)
      /\ Processing' = Processing \cup {h} /\ Dead' = Dead
  BY MoveContents DEF TypeInv, TypeOK
<1>4. \A i, k \in 1..Len(pending') : pending'[i].id = pending'[k].id => i = k
  <2> SUFFICES ASSUME NEW i \in 1..Len(pending'), NEW k \in 1..Len(pending'),
                      pending'[i].id = pending'[k].id
               PROVE  i = k
    OBVIOUS
  <2>1. /\ i + 1 \in 1..Len(pending) /\ k + 1 \in 1..Len(pending)
        /\ pending[i + 1].id = pending[k + 1].id
    BY <1>2
  <2>2. i + 1 = k + 1
    BY <2>1 DEF SingleCopy
  <2> QED
    BY <1>2, <2>2
<1>5. \A r \in Elements(pending)' : r.id # h.id
  <2> SUFFICES ASSUME NEW r \in Elements(pending)', r.id = h.id PROVE FALSE
    OBVIOUS
  <2>1. PICK i \in 1..Len(pending') : r = pending'[i]
    BY DEF Elements
  <2>2. i + 1 \in 1..Len(pending) /\ 1 \in 1..Len(pending) /\ pending[i + 1].id = pending[1].id
    BY <1>2, <2>1
  <2>3. i + 1 = 1
    BY <2>2 DEF SingleCopy
  <2> QED
    BY <1>2, <2>3
<1>6. \A s \in Processing \cup Dead : s.id # h.id
  BY <1>3 DEF SingleCopy
<1>7. \A r \in Raw : processing'[r] <= 1 /\ dead'[r] <= 1
  <2>1. processing[h] = 0
    <3>1. h \notin Processing
      BY <1>6
    <3>2. processing[h] \in Nat /\ ~(processing[h] > 0)
      BY <1>1, <3>1 DEF Processing, TypeInv, TypeOK, QueueTypeOK
    <3> QED
      BY <3>2
  <2>2. /\ \A r \in Raw : processing'[r] = IF r = h THEN processing[r] + 1 ELSE processing[r]
        /\ dead' = dead
    BY <1>1 DEF MoveToProcessing, Push, TypeInv, TypeOK, QueueTypeOK
  <2> QED
    BY <2>1, <2>2 DEF SingleCopy
<1> HIDE DEF h
<1>8. \A r, s \in Processing' \cup Dead' : r.id = s.id => r = s
  BY <1>3, <1>6 DEF SingleCopy
<1>9. Processing' \cap Dead' = {}
  BY <1>3, <1>6 DEF SingleCopy
<1>10. \A r \in Elements(pending)', s \in Processing' \cup Dead' : r.id # s.id
  BY <1>3, <1>5 DEF SingleCopy
<1> QED
  BY <1>4, <1>5, <1>7, <1>8, <1>9, <1>10 DEF SingleCopy, h

LEMMA RemoveUnique ==
  ASSUME TypeInv, SingleCopy, NEW r \in Raw,
         processing' = LRem(processing, r), pending' = pending, dead' = dead
  PROVE  SingleCopy' /\ r \notin Processing'
<1>1. /\ processing \in [Raw -> Nat] /\ dead \in [Raw -> Nat]
      /\ \A s \in Raw : processing[s] <= 1 /\ dead[s] <= 1
  BY DEF SingleCopy, TypeInv, TypeOK, QueueTypeOK
<1>2. \A s \in Raw : processing'[s] <= 1 /\ processing'[s] <= processing[s]
  BY <1>1 DEF LRem
<1>3. processing'[r] = 0
  <2>1. processing'[r] = IF processing[r] > 0 THEN processing[r] - 1 ELSE 0
    BY <1>1 DEF LRem
  <2>2. processing[r] \in Nat /\ processing[r] <= 1
    BY <1>1
  <2> QED
    BY <2>1, <2>2
<1>4. Processing' \subseteq Processing /\ r \notin Processing'
  BY <1>1, <1>2, <1>3 DEF Processing, LRem
<1>5. Elements(pending)' = Elements(pending) /\ Dead' = Dead
  BY DEF Elements, Dead
<1>6. \A s, t \in Processing' \cup Dead' : s.id = t.id => s = t
  BY <1>4, <1>5 DEF SingleCopy
<1>7. /\ Processing' \cap Dead' = {}
      /\ \A s \in Elements(pending)', t \in Processing' \cup Dead' : s.id # t.id
      /\ \A i, k \in 1..Len(pending') : pending'[i].id = pending'[k].id => i = k
  BY <1>4, <1>5 DEF SingleCopy
<1>8. \A s \in Raw : processing'[s] <= 1 /\ dead'[s] <= 1
  BY <1>1, <1>2
<1> QED
  BY <1>4, <1>6, <1>7, <1>8 DEF SingleCopy

\* The job is put back, or buried, only where it was taken from.
LEMMA RetryUnique ==
  ASSUME TypeInv, CustodyInv, SingleCopy, NEW r \in Processing, RetryOrDeadLetter(r)
  PROVE  SingleCopy'
<1> DEFINE next == Retried(r)
<1>0. QueueTypeOK /\ r \in Raw /\ r.attempts <= MaxRetries
  BY DEF TypeInv, TypeOK, CustodyInv, AttemptsBounded, Processing
<1>1. /\ next \in Raw /\ next.id = r.id
      /\ Processing' \subseteq Processing
      /\ \/ /\ r.attempts < MaxRetries
            /\ Elements(pending)' = Elements(pending) \cup {next}
            /\ Dead' = Dead
         \/ /\ r.attempts = MaxRetries
            /\ Elements(pending)' = Elements(pending)
            /\ Dead' = Dead \cup {next}
  BY <1>0, RetryContents
<1>2. /\ processing \in [Raw -> Nat] /\ dead \in [Raw -> Nat]
      /\ \A s \in Raw : processing[s] <= 1 /\ dead[s] <= 1
  BY <1>0 DEF SingleCopy, QueueTypeOK
<1>3. /\ processing' = LRem(processing, r)
      /\ \/ pending' = Append(pending, next) /\ dead' = dead
         \/ pending' = pending /\ dead' = Push(dead, next)
  BY DEF RetryOrDeadLetter
<1> HIDE DEF next
<1>4. r \notin Processing'
  <2>1. processing'[r] = processing[r] - 1 /\ processing[r] \in Nat /\ processing[r] <= 1
    BY <1>0, <1>2, <1>3 DEF LRem, Processing
  <2> QED
    BY <2>1 DEF Processing
<1>5. \A s \in Processing' \cup Dead : s.id # r.id
  <2> SUFFICES ASSUME NEW s \in Processing' \cup Dead, s.id = r.id PROVE FALSE
    OBVIOUS
  <2>1. s \in Processing \cup Dead /\ r \in Processing \cup Dead
    BY <1>1
  <2>2. s = r
    BY <2>1 DEF SingleCopy
  <2>3. r \notin Dead
    BY DEF SingleCopy
  <2> QED
    BY <1>4, <2>2, <2>3
<1>6. \A s \in Elements(pending) : s.id # r.id
  BY DEF SingleCopy
<1>7. \A s \in Raw : processing'[s] <= 1
  BY <1>2, <1>3 DEF LRem
<1>8. CASE pending' = Append(pending, next) /\ dead' = dead
  <2>1. pending \in Seq(Raw)
    BY <1>0 DEF QueueTypeOK
  <2>2. /\ Len(pending') = Len(pending) + 1 /\ Len(pending) \in Nat
        /\ \A i \in 1..Len(pending) : pending'[i] = pending[i]
        /\ pending'[Len(pending) + 1] = next
    BY <1>1, <1>8, <2>1, AppendProperties, LenProperties
  <2>3. ASSUME NEW i \in 1..Len(pending'), NEW k \in 1..Len(pending'),
               pending'[i].id = pending'[k].id
        PROVE  i = k
    <3>1. \A m \in 1..Len(pending) : pending[m].id # next.id
      BY <1>1, <1>6 DEF Elements
    <3>2. /\ i \in 1..Len(pending) \/ i = Len(pending) + 1
          /\ k \in 1..Len(pending) \/ k = Len(pending) + 1
      BY <2>2
    <3>3. CASE i \in 1..Len(pending) /\ k \in 1..Len(pending)
      BY <2>2, <2>3, <3>3 DEF SingleCopy
    <3> QED
      BY <2>2, <2>3, <3>1, <3>2, <3>3
  <2>4. Dead' = Dead /\ Elements(pending)' \subseteq Elements(pending) \cup {next}
    <3>1. Dead' = Dead
      BY <1>8 DEF Dead
    <3> QED
      BY <1>1, <3>1
  <2>5. \A s, t \in Processing' \cup Dead' : s.id = t.id => s = t
    BY <1>1, <2>4 DEF SingleCopy
  <2>6. Processing' \cap Dead' = {}
    BY <1>1, <2>4 DEF SingleCopy
  <2>7. \A s \in Elements(pending)', t \in Processing' \cup Dead' : s.id # t.id
    BY <1>1, <1>5, <2>4 DEF SingleCopy
  <2> QED
    BY <1>2, <1>7, <1>8, <2>3, <2>5, <2>6, <2>7 DEF SingleCopy
<1>9. CASE pending' = pending /\ dead' = Push(dead, next)
  <2>1. next \notin Dead
    BY <1>1, <1>5
  <2>2. dead[next] \in Nat /\ ~(dead[next] > 0)
    BY <1>1, <1>2, <2>1 DEF Dead
  <2>3. \A s \in Raw : dead'[s] = IF s = next THEN dead[s] + 1 ELSE dead[s]
    BY <1>1, <1>2, <1>9 DEF Push
  <2>4. \A s \in Raw : dead'[s] <= 1
    BY <1>2, <2>2, <2>3
  <2>5. Dead' \subseteq Dead \cup {next}
    BY <1>1
  <2>6. \A s, t \in Processing' \cup Dead' : s.id = t.id => s = t
    BY <1>1, <1>5, <2>5 DEF SingleCopy
  <2>7. Processing' \cap Dead' = {}
    BY <1>1, <1>5, <2>5 DEF SingleCopy
  <2>8. Elements(pending)' = Elements(pending)
    BY <1>9 DEF Elements
  <2>9. \A s \in Elements(pending)', t \in Processing' \cup Dead' : s.id # t.id
    BY <1>1, <1>6, <2>5, <2>8 DEF SingleCopy
  <2> QED
    BY <1>7, <1>9, <2>4, <2>6, <2>7, <2>9 DEF SingleCopy
<1> QED
  BY <1>3, <1>8, <1>9

LEMMA NextUnique == TypeInv /\ CustodyInv /\ SingleCopy /\ QueueNext => SingleCopy'
<1> SUFFICES ASSUME TypeInv, CustodyInv, SingleCopy, QueueNext PROVE SingleCopy'
  OBVIOUS
<1>1. ASSUME NEW batch \in Batches, Enqueue(batch)
      PROVE  SingleCopy'
  BY <1>1, EnqueueUnique
<1>2. CASE MoveToProcessing
  BY <1>2, MoveUnique
<1>3. ASSUME NEW r \in Raw, Acknowledge(r) \/ DropCompleted(r)
      PROVE  SingleCopy'
  BY <1>3, RemoveUnique DEF Acknowledge, DropCompleted
<1>4. ASSUME NEW r \in Processing, RetryOrDeadLetter(r)
      PROVE  SingleCopy'
  BY <1>4, RetryUnique
<1>5. CASE Clear
  <2>1. /\ Elements(pending)' = {} /\ Processing' = {} /\ Dead' = {}
        /\ pending' = <<>> /\ Len(<<>>) = 0
        /\ \A r \in Raw : processing'[r] = 0 /\ dead'[r] = 0
    BY <1>5 DEF Clear, EmptyBag, Elements, Processing, Dead
  <2> QED
    BY <2>1 DEF SingleCopy
<1>6. CASE UNCHANGED <<listVars, accepted, acked, cleared>>
  BY <1>6 DEF listVars, SingleCopy, Elements, Processing, Dead
<1> QED
  BY <1>1, <1>2, <1>3, <1>4, <1>5, <1>6 DEF QueueNext

LEMMA InitUnique == Init => SingleCopy
<1> SUFFICES ASSUME Init PROVE SingleCopy
  OBVIOUS
<1>1. /\ Elements(pending) = {} /\ Processing = {} /\ Dead = {}
      /\ pending = <<>> /\ Len(<<>>) = 0
      /\ \A r \in Raw : processing[r] = 0 /\ dead[r] = 0
  BY DEF Init, QueueInit, EmptyBag, Elements, Processing, Dead
<1> QED
  BY <1>1 DEF SingleCopy

-----------------------------------------------------------------------------
(* Whom the jobs in hand belong to *)

\* Whoever acknowledges, holds or looks for a job, it is an accepted one; and
\* between two jobs a process holds none.
KnownInv ==
  /\ acked \subseteq accepted
  /\ \A r \in Leased : r.id \in accepted
  /\ \A p \in Procs : job[p] # NoJob => job[p].id \in accepted
  /\ \A p \in Procs : \A r \in todo[p] : r.id \in accepted
  /\ \A p \in Procs : pc[p] \in {"idle", "scan", "stale", "reserve"} => job[p] = NoJob
  /\ \A w \in Workers : pc[w] \in {"scan", "stale", "drop"} => w \in recovering

LEMMA InitKnown == Init => KnownInv
BY DEF Init, QueueInit, KnownInv, Leased, Procs

LEMMA ListedAccepted ==
  ASSUME TypeInv, CustodyInv
  PROVE  /\ \A r \in Processing : r.id \in accepted
         /\ \A r \in Expired : r \in Leased
         /\ pending # <<>> => Head(pending) \in Raw /\ Head(pending).id \in accepted
<1>1. \A r \in Processing \cup Elements(pending) : r.id \in accepted
  BY DEF CustodyInv, Live
<1>2. ASSUME pending # <<>>
      PROVE  Head(pending) \in Raw /\ Head(pending) \in Elements(pending)
  <2>1. /\ pending \in Seq(Raw) /\ Len(pending) \in Nat /\ Len(pending) >= 1
        /\ Head(pending) = pending[1] /\ Head(pending) \in Raw
    BY <1>2, EmptySeq, LenProperties, HeadTailProperties DEF TypeInv, TypeOK, QueueTypeOK
  <2> QED
    BY <2>1 DEF Elements
<1>3. \A r \in Expired : r \in Leased
  BY DEF Expired, Leased
<1> QED
  BY <1>1, <1>2, <1>3

LEMMA NextKnown == TypeInv /\ CustodyInv /\ KnownInv /\ [Next]_vars => KnownInv'
<1> SUFFICES ASSUME TypeInv, CustodyInv, KnownInv, [Next]_vars PROVE KnownInv'
  OBVIOUS
<1>1. CASE UNCHANGED vars
  BY <1>1 DEF vars, queueVars, procVars, KnownInv, Leased
<1> USE DEF Goto, Hold, Procs, TypeInv, TypeOK, QueueTypeOK
<1>2. ASSUME NEW w \in Workers,
             \/ BeginRecovery(w) \/ FetchStale(w) \/ CheckStale(w) \/ EndRecovery(w)
             \/ WatchProcessing(w) \/ ExecConflict(w) \/ NothingPending(w)
             \/ CheckCompleted(w) \/ ProcessFails(w)
      PROVE  KnownInv'
  <2>1. UNCHANGED queueVars
    BY <1>2 DEF BeginRecovery, FetchStale, CheckStale, EndRecovery,
         WatchProcessing, ExecConflict, NothingPending, CheckCompleted, ProcessFails
  <2>2. Leased' = Leased /\ accepted' = accepted /\ acked' = acked
    BY <2>1 DEF queueVars, Leased
  <2>3. CASE BeginRecovery(w)
    BY <2>2, <2>3, ListedAccepted DEF BeginRecovery, KnownInv
  <2>4. CASE FetchStale(w)
    BY <2>2, <2>4, ListedAccepted DEF FetchStale, KnownInv
  <2>5. CASE CheckStale(w)
    BY <2>2, <2>5 DEF CheckStale, KnownInv
  <2>6. CASE EndRecovery(w) \/ NothingPending(w)
    BY <2>2, <2>6 DEF EndRecovery, NothingPending, KnownInv
  <2>7. CASE WatchProcessing(w) \/ ExecConflict(w) \/ CheckCompleted(w) \/ ProcessFails(w)
    BY <2>2, <2>7 DEF WatchProcessing, ExecConflict, CheckCompleted, ProcessFails, KnownInv
  <2> QED
    BY <1>2, <2>3, <2>4, <2>5, <2>6, <2>7
<1>3. ASSUME NEW w \in Workers, EnsureOneLease(w)
      PROVE  KnownInv'
  <2>1. PICK r \in todo[w] : EnsureLease(r) /\ todo' = [todo EXCEPT ![w] = @ \ {r}]
    BY <1>3 DEF EnsureOneLease
  <2>2. r.id \in accepted /\ Leased' \subseteq Leased \cup {r}
    BY <2>1 DEF KnownInv, EnsureLease, Leased
  <2> QED
    BY <1>3, <2>1, <2>2 DEF EnsureOneLease, EnsureLease, KnownInv
<1>4. ASSUME NEW w \in Workers, Missing(w)
      PROVE  KnownInv'
  <2>1. Leased' \subseteq Leased
    BY <1>4 DEF Missing, RemoveLease, Leased
  <2> QED
    BY <1>4, <2>1 DEF Missing, EndRetry, RemoveLease, KnownInv
<1>5. ASSUME NEW p \in Procs, RecordLease(p)
      PROVE  KnownInv'
  <2>1. job[p] \in Raw /\ job[p].id \in accepted
    BY <1>5, ProcsAssumption DEF RecordLease, JobHeld, KnownInv
  <2>2. Leased' \subseteq Leased \cup {job[p]}
    BY <1>5 DEF RecordLease, AddLease, Leased
  <2> QED
    BY <1>5, <2>1, <2>2 DEF RecordLease, AddLease, KnownInv
<1>6. ASSUME NEW p \in Procs, Reserve(p)
      PROVE  KnownInv'
  <2>1. Leased' = Leased
    BY <1>6 DEF Reserve, MoveToProcessing, Leased
  <2> QED
    BY <1>6, <2>1, ListedAccepted DEF Reserve, MoveToProcessing, KnownInv
<1>7. ASSUME NEW p \in Procs, Ack(p)
      PROVE  KnownInv'
  <2>1. job[p].id \in accepted
    BY <1>7, ProcsAssumption DEF Ack, JobHeld, KnownInv
  <2>2. Leased' \subseteq Leased
    BY <1>7 DEF Ack, Acknowledge, Leased
  <2> QED
    BY <1>7, <2>1, <2>2 DEF Ack, Acknowledge, Finish, KnownInv
<1>8. ASSUME NEW w \in Workers, DropStale(w)
      PROVE  KnownInv'
  <2>1. Leased' \subseteq Leased
    BY <1>8 DEF DropStale, DropCompleted, Leased
  <2> QED
    BY <1>8, <2>1 DEF DropStale, DropCompleted, KnownInv
<1>9. ASSUME NEW w \in Workers, ExecRetry(w) \/ ExecReplyLost(w)
      PROVE  KnownInv'
  <2>1. /\ Leased' \subseteq Leased /\ accepted' = accepted /\ acked' = acked
        /\ todo' = todo
    BY <1>9 DEF ExecRetry, ExecReplyLost, RetryOrDeadLetter, Leased
  <2>2. CASE ExecRetry(w)
    BY <2>1, <2>2 DEF ExecRetry, EndRetry, KnownInv
  <2>3. CASE ExecReplyLost(w)
    BY <2>1, <2>3 DEF ExecReplyLost, KnownInv
  <2> QED
    BY <1>9, <2>2, <2>3
<1>10. ASSUME NEW w \in Workers, AckError(w)
       PROVE  KnownInv'
  <2>1. job[w].id \in accepted
    BY <1>10, ProcsAssumption DEF AckError, JobHeld, KnownInv
  <2>2. /\ Leased' \subseteq Leased /\ accepted' = accepted
        /\ acked' \subseteq acked \cup {job[w].id}
    BY <1>10 DEF AckError, Acknowledge, queueVars, Leased
  <2> QED
    BY <1>10, <2>1, <2>2 DEF AckError, KnownInv
<1>11. ASSUME NEW p \in Procs, Crash(p)
       PROVE  KnownInv'
  BY <1>11 DEF Crash, Finish, queueVars, Leased, KnownInv
<1>12. CASE Join
  BY <1>12 DEF Join, Enqueue, procVars, Leased, KnownInv
<1>13. CASE Reset
  <2>1. Leased' = {}
    BY <1>13 DEF Reset, Clear, Leased
  <2> QED
    BY <1>13, <2>1 DEF Reset, Clear, KnownInv
<1>14. ASSUME NEW r \in Raw, Lapse(r)
       PROVE  KnownInv'
  <2>1. Leased' \subseteq Leased
    BY <1>14 DEF Lapse, LeaseExpires, Leased
  <2> QED
    BY <1>14, <2>1 DEF Lapse, LeaseExpires, procVars, KnownInv
<1>15. ASSUME NEW j \in Jobs, Forget(j)
       PROVE  KnownInv'
  BY <1>15 DEF Forget, MarkerExpires, procVars, Leased, KnownInv
<1>16. CASE Next
  BY <1>16, <1>2, <1>3, <1>4, <1>5, <1>6, <1>7, <1>8, <1>9, <1>10, <1>11, <1>12,
     <1>13, <1>14, <1>15 DEF Next, WorkerStep, HandlerStep, Fault
<1> QED
  BY <1>1, <1>16

-----------------------------------------------------------------------------
(* One owner per attempt *)

\* An attempt that has been handed out is not in the queue again: what the lists
\* hold of an owner's job is that attempt, still reserved, or a later one.
OwnerInv ==
  /\ OneOwnerPerAttempt
  /\ \A p \in Owners : \A s \in Elements(pending) :
       s.id = job[p].id => s.attempts > job[p].attempts
  /\ \A p \in Owners : \A s \in Processing :
       s.id = job[p].id => s.attempts >= job[p].attempts

\* Only reserve() makes an owner.
LEMMA OwnerStep ==
  ASSUME TypeInv, KnownInv, [Next]_vars
  PROVE  \/ /\ Owners' \subseteq Owners
            /\ \A p \in Owners' : job'[p] = job[p]
         \/ /\ MoveToProcessing
            /\ \E p \in Procs : /\ Owners' \subseteq Owners \cup {p} /\ p \notin Owners
                                /\ job'[p] = Head(pending)
                                /\ \A q \in Owners : job'[q] = job[q]
<1> DEFINE Kept == Owners' \subseteq Owners /\ \A p \in Owners' : job'[p] = job[p]
<1>1. CASE UNCHANGED vars
  BY <1>1 DEF vars, procVars, Owners
<1> USE DEF Goto, Hold, Procs, TypeInv, TypeOK
<1>2. ASSUME NEW w \in Workers, BeginRecovery(w) \/ FetchStale(w) \/ WatchProcessing(w)
                \/ ExecConflict(w) \/ NothingPending(w) \/ CheckCompleted(w) \/ ProcessFails(w)
                \/ EnsureOneLease(w) \/ ExecReplyLost(w) \/ AckError(w)
      PROVE  Kept
  <2>1. job' = job /\ recovering \subseteq recovering'
    BY <1>2 DEF BeginRecovery, FetchStale, WatchProcessing, ExecConflict, NothingPending,
         CheckCompleted, ProcessFails, EnsureOneLease, ExecReplyLost, AckError
  <2> QED
    BY <2>1 DEF Owners
<1>3. ASSUME NEW w \in Workers, CheckStale(w)
      PROVE  Kept
  <2>1. w \in recovering /\ recovering' = recovering
    BY <1>3 DEF CheckStale, KnownInv
  <2>2. \A q \in Procs \ {w} : job'[q] = job[q]
    BY <1>3 DEF CheckStale
  <2> QED
    BY <2>1, <2>2 DEF Owners
<1>4. ASSUME NEW w \in Workers, EndRecovery(w)
      PROVE  Kept
  <2>1. job[w] = NoJob /\ job' = job /\ recovering' = recovering \ {w}
    BY <1>4 DEF EndRecovery, KnownInv
  <2> QED
    BY <2>1 DEF Owners
<1>5. ASSUME NEW p \in Procs, \/ Ack(p) \/ Crash(p)
                              \/ p \in Workers /\ (DropStale(p) \/ Missing(p) \/ ExecRetry(p))
      PROVE  Kept
  <2>1. job'[p] = NoJob /\ \A q \in Procs \ {p} : job'[q] = job[q]
    BY <1>5 DEF Ack, Crash, Finish, DropStale, Missing, ExecRetry, EndRetry
  <2>2. recovering \ {p} \subseteq recovering'
    BY <1>5 DEF Ack, Crash, DropStale, Missing, ExecRetry
  <2> QED
    BY <2>1, <2>2 DEF Owners
<1>6. ASSUME NEW p \in Procs, RecordLease(p)
      PROVE  Kept
  BY <1>6 DEF RecordLease, Owners
<1>7. ASSUME NEW p \in Procs, Reserve(p)
      PROVE  /\ MoveToProcessing
             /\ Owners' \subseteq Owners \cup {p} /\ p \notin Owners
             /\ job'[p] = Head(pending)
             /\ \A q \in Owners : job'[q] = job[q]
  <2>1. MoveToProcessing /\ recovering' = recovering /\ job[p] = NoJob
    BY <1>7 DEF Reserve, KnownInv
  <2>2. job'[p] = Head(pending) /\ \A q \in Procs \ {p} : job'[q] = job[q]
    BY <1>7 DEF Reserve
  <2> QED
    BY <2>1, <2>2 DEF Owners
<1>8. ASSUME Join \/ Reset \/ (\E r \in Raw : Lapse(r)) \/ (\E j \in Jobs : Forget(j))
      PROVE  Kept
  BY <1>8 DEF Join, Reset, Lapse, Forget, procVars, Owners
<1> HIDE DEF Kept
<1>9. CASE Next
  <2>1. CASE \E p \in Procs : Reserve(p)
    BY <2>1, <1>7
  <2>2. CASE ~ \E p \in Procs : Reserve(p)
    <3>1. Kept
      <4>1. CASE Join \/ Reset \/ (\E r \in Raw : Lapse(r)) \/ (\E j \in Jobs : Forget(j))
        BY <4>1, <1>8 DEF Kept
      <4>2. ASSUME NEW w \in Workers, WorkerStep(w)
            PROVE  Kept
        BY <2>2, <4>2, <1>2, <1>3, <1>4, <1>5, <1>6 DEF WorkerStep
      <4>3. ASSUME NEW h \in Handlers, HandlerStep(h)
            PROVE  Kept
        BY <2>2, <4>3, <1>5, <1>6 DEF HandlerStep
      <4>4. CASE Fault
        BY <4>4, <1>2, <1>5 DEF Fault
      <4> QED
        BY <1>9, <4>1, <4>2, <4>3, <4>4 DEF Next
    <3> QED
      BY <3>1 DEF Kept
  <2> QED
    BY <2>1, <2>2
<1> QED
  BY <1>1, <1>9

LEMMA NextOwner ==
  TypeInv /\ CustodyInv /\ SingleCopy /\ KnownInv /\ OwnerInv /\ QueueNext /\ [Next]_vars
    => OwnerInv'
<1> SUFFICES ASSUME TypeInv, CustodyInv, SingleCopy, KnownInv, OwnerInv, QueueNext, [Next]_vars
             PROVE  OwnerInv'
  OBVIOUS
<1>0. /\ QueueTypeOK
      /\ \A p \in Owners : job[p] \in Raw /\ job[p].id \in accepted
    BY DEF Owners, KnownInv, TypeInv, TypeOK
<1> DEFINE Later(p, elements, reserved) ==
             /\ \A s \in elements : s.id = job[p].id => s.attempts > job[p].attempts
             /\ \A s \in reserved : s.id = job[p].id => s.attempts >= job[p].attempts
\* Of an owner's job no earlier attempt enters a list.
<1>1. \A p \in Owners : Later(p, Elements(pending)', Processing')
  <2> SUFFICES ASSUME NEW p \in Owners
               PROVE  Later(p, Elements(pending)', Processing')
    OBVIOUS
  <2>0. /\ Later(p, Elements(pending), Processing)
        /\ job[p].attempts \in Nat
    BY <1>0, RawFields DEF OwnerInv
  <2>1. ASSUME NEW batch \in Batches, Enqueue(batch)
        PROVE  Later(p, Elements(pending)', Processing')
    <3>1. Elements(pending)' = Elements(pending) \cup {NewJob(batch[i]) : i \in DOMAIN batch}
          /\ Processing' = Processing
      BY <1>0, <2>1, EnqueueContents
    <3>2. \A i \in DOMAIN batch : NewJob(batch[i]).id \notin accepted
      BY DEF Batches, NewJob
    <3> QED
      BY <1>0, <2>0, <3>1, <3>2
  <2>2. CASE MoveToProcessing
    <3>1. /\ Head(pending) \in Elements(pending) /\ Head(pending) \in Raw
          /\ Elements(pending)' \subseteq Elements(pending)
          /\ Processing' = Processing \cup {Head(pending)}
      BY <1>0, <2>2, MoveContents, MoveType
    <3>2. Head(pending).attempts \in Nat
      BY <3>1, RawFields
    <3> QED
      BY <2>0, <3>1, <3>2
  <2>3. ASSUME NEW r \in Raw, Acknowledge(r) \/ DropCompleted(r)
        PROVE  Later(p, Elements(pending)', Processing')
    <3>1. pending' = pending /\ processing' = LRem(processing, r)
      BY <2>3 DEF Acknowledge, DropCompleted
    <3>2. Elements(pending)' = Elements(pending) /\ Processing' \subseteq Processing
      BY <1>0, <3>1, RemoveContents DEF Elements
    <3> QED
      BY <2>0, <3>2
  <2>4. ASSUME NEW r \in Processing, RetryOrDeadLetter(r)
        PROVE  Later(p, Elements(pending)', Processing')
    <3>1. r \in Raw /\ r.attempts <= MaxRetries /\ r.attempts \in Nat
      BY RawFields DEF CustodyInv, AttemptsBounded, Processing
    <3>2. /\ Retried(r).id = r.id /\ Retried(r).attempts = r.attempts + 1
          /\ Processing' \subseteq Processing
          /\ Elements(pending)' \subseteq Elements(pending) \cup {Retried(r)}
      BY <1>0, <2>4, <3>1, RetryContents
    <3> QED
      BY <2>0, <3>1, <3>2
  <2>5. CASE Clear
    BY <2>5 DEF Clear, EmptyBag, Elements, Processing
  <2>6. CASE UNCHANGED <<listVars, accepted, acked, cleared>>
    BY <2>0, <2>6 DEF listVars, Elements, Processing
  <2> HIDE DEF Later
  <2> QED
    BY <2>1, <2>2, <2>3, <2>4, <2>5, <2>6 DEF QueueNext
<1>2. CASE Owners' \subseteq Owners /\ \A p \in Owners' : job'[p] = job[p]
  BY <1>1, <1>2 DEF OwnerInv, OneOwnerPerAttempt
<1>3. CASE /\ MoveToProcessing
           /\ \E p \in Procs : /\ Owners' \subseteq Owners \cup {p} /\ p \notin Owners
                               /\ job'[p] = Head(pending)
                               /\ \A q \in Owners : job'[q] = job[q]
  <2>1. PICK p \in Procs : /\ Owners' \subseteq Owners \cup {p} /\ p \notin Owners
                           /\ job'[p] = Head(pending)
                           /\ \A q \in Owners : job'[q] = job[q]
    BY <1>3
  <2> DEFINE h == Head(pending)
  <2>2. /\ h \in Elements(pending) /\ h \in Raw /\ h.attempts \in Nat
        /\ Processing' = Processing \cup {h}
    BY <1>0, <1>3, MoveContents, MoveType, RawFields
  <2>3. \A r \in Elements(pending)' : r.id # h.id
    BY <1>3, MoveUnique
  <2>4. \A s \in Processing' : s.id = h.id => s = h
    BY <2>2 DEF SingleCopy
  <2>5. \A q \in Owners : job[q] # h
    <3> SUFFICES ASSUME NEW q \in Owners, job[q] = h PROVE FALSE
      OBVIOUS
    <3>1. h.attempts > h.attempts
      BY <2>2 DEF OwnerInv
    <3> QED
      BY <2>2, <3>1
  <2> HIDE DEF h
  <2>6. job'[p] = h
    BY <2>1 DEF h
  <2>7. OneOwnerPerAttempt'
    <3>1. \A q \in Owners' : q = p \/ (q \in Owners /\ job'[q] = job[q] /\ job'[q] # h)
      BY <2>1, <2>5
    <3> QED
      BY <2>6, <3>1 DEF OneOwnerPerAttempt, OwnerInv
  <2>8. \A q \in Owners' : \A s \in Elements(pending)' :
           s.id = job'[q].id => s.attempts > job'[q].attempts
    BY <1>1, <2>1, <2>3, <2>6
  <2>9. \A q \in Owners' : \A s \in Processing' :
           s.id = job'[q].id => s.attempts >= job'[q].attempts
    BY <1>1, <2>1, <2>2, <2>4, <2>6
  <2> QED
    BY <2>7, <2>8, <2>9 DEF OwnerInv
<1> QED
  BY <1>2, <1>3, OwnerStep

\* All that the proofs know of the queue at once.
Inv == TypeInv /\ StepInv /\ CustodyInv /\ SingleCopy /\ KnownInv

LEMMA NextInv == Inv /\ [Next]_vars => Inv' /\ QueueNext
BY NextType, NextStep, QueueStep, NextCustody, NextUnique, NextKnown DEF Inv

LEMMA InvHolds == Spec => []Inv
<1>1. Init => Inv
  BY InitType, InitStep, InitCustody, InitUnique, InitKnown DEF Inv
<1> QED
  BY <1>1, NextInv, PTL DEF Spec

\* However many recovery passes and failing owners race to move a job, the three
\* lists hold at most one copy of it: the WATCH of retry_or_dead_letter() is
\* enough.
THEOREM OneCopy == Spec => []SingleCopy
<1>1. Inv => SingleCopy
  BY DEF Inv
<1> QED
  BY <1>1, InvHolds, PTL

\* A lease that ran out gives a job a second worker, but under the next number
\* of attempts: no attempt is handed out twice.
THEOREM OneOwner == Spec => []OneOwnerPerAttempt
<1>1. Init => OwnerInv
  BY DEF Init, QueueInit, OwnerInv, OneOwnerPerAttempt, Owners
<1>2. Inv /\ OwnerInv /\ [Next]_vars => OwnerInv'
  BY NextInv, NextOwner DEF Inv
<1>3. OwnerInv => OneOwnerPerAttempt
  BY DEF OwnerInv
<1> QED
  BY <1>1, <1>2, <1>3, InvHolds, PTL DEF Spec

-----------------------------------------------------------------------------
(* The refinement of AtLeastOnce *)

\* What the abstract job looks like, from where its only copy is.
Mapped ==
  /\ phase = [j \in Jobs |-> phase[j]] /\ tries = [j \in Jobs |-> tries[j]]
  /\ \A r \in Elements(pending) : phase[r.id] = "waiting" /\ tries[r.id] = r.attempts
  /\ \A r \in Processing : phase[r.id] = "running" /\ tries[r.id] = r.attempts
  /\ \A r \in Dead : phase[r.id] = "dead" /\ tries[r.id] = r.attempts
  /\ \A j \in Jobs \ Live : /\ phase[j] = IF j \in accepted THEN "gone" ELSE "new"
                            /\ tries[j] = 0
  /\ \A j \in Jobs : phase[j] = "new" <=> j \notin accepted

LEMMA Mapping == Inv => Mapped
<1> SUFFICES ASSUME Inv PROVE Mapped
  OBVIOUS
<1>1. /\ QueueTypeOK /\ SingleCopy /\ Live \subseteq accepted
      /\ Elements(pending) \subseteq Raw /\ Processing \subseteq Raw /\ Dead \subseteq Raw
  <2>1. QueueTypeOK /\ SingleCopy /\ Live \subseteq accepted
    BY DEF Inv, TypeInv, TypeOK, CustodyInv
  <2>2. Elements(pending) \subseteq Raw
    BY <2>1 DEF QueueTypeOK, Elements
  <2> QED
    BY <2>1, <2>2 DEF Processing, Dead
<1> DEFINE copies == Elements(pending) \cup Processing \cup Dead
<1>2. \A r, s \in copies : r.id = s.id => r = s
  <2>1. \A r, s \in Elements(pending) : r.id = s.id => r = s
    BY <1>1 DEF SingleCopy, Elements
  <2> QED
    BY <1>1, <2>1 DEF SingleCopy
<1>3. \A r \in copies : tries[r.id] = r.attempts
  <2> SUFFICES ASSUME NEW r \in copies PROVE tries[r.id] = r.attempts
    OBVIOUS
  <2>1. r.id \in Jobs
    BY <1>1, RawFields
  <2>2. Copies(r.id) = {r}
    BY <1>2 DEF Copies
  <2> QED
    BY <2>1, <2>2 DEF tries
<1>4. \A r \in Processing : phase[r.id] = "running"
  BY <1>1, RawFields DEF phase
<1>5. \A r \in Dead : phase[r.id] = "dead"
  <2> SUFFICES ASSUME NEW r \in Dead PROVE phase[r.id] = "dead"
    OBVIOUS
  <2>1. ~ \E s \in Processing : s.id = r.id
    BY <1>1 DEF SingleCopy
  <2> QED
    BY <1>1, <2>1, RawFields DEF phase
<1>6. \A r \in Elements(pending) : phase[r.id] = "waiting"
  <2> SUFFICES ASSUME NEW r \in Elements(pending) PROVE phase[r.id] = "waiting"
    OBVIOUS
  <2>1. /\ ~ \E s \in Processing : s.id = r.id
        /\ ~ \E s \in Dead : s.id = r.id
    BY <1>1 DEF SingleCopy
  <2> QED
    BY <1>1, <2>1, RawFields DEF phase
<1>7. \A j \in Jobs \ Live : /\ phase[j] = IF j \in accepted THEN "gone" ELSE "new"
                             /\ tries[j] = 0
  <2> SUFFICES ASSUME NEW j \in Jobs \ Live
               PROVE  /\ phase[j] = IF j \in accepted THEN "gone" ELSE "new"
                      /\ tries[j] = 0
    OBVIOUS
  <2>1. \A r \in copies : r.id # j
    BY DEF Live
  <2>2. Copies(j) = {}
    BY <2>1 DEF Copies
  <2> QED
    BY <2>1, <2>2 DEF phase, tries
<1>8. \A j \in Jobs : phase[j] = "new" <=> j \notin accepted
  <2> SUFFICES ASSUME NEW j \in Jobs PROVE phase[j] = "new" <=> j \notin accepted
    OBVIOUS
  <2>1. CASE j \in Live
    <3>1. PICK r \in copies : r.id = j
      BY <2>1 DEF Live
    <3>2. phase[j] # "new"
      BY <1>4, <1>5, <1>6, <3>1
    <3> QED
      BY <1>1, <2>1, <3>2
  <2>2. CASE j \notin Live
    BY <1>7, <2>2
  <2> QED
    BY <2>1, <2>2
<1>9. phase = [j \in Jobs |-> phase[j]] /\ tries = [j \in Jobs |-> tries[j]]
  BY DEF phase, tries
<1> QED
  BY <1>3, <1>4, <1>5, <1>6, <1>7, <1>8, <1>9 DEF Mapped

\* A job whose copies stay where they are does not change.
LEMMA SameJob ==
  ASSUME NEW j \in Jobs, j \in accepted' <=> j \in accepted,
         \A r : r.id = j =>
           /\ r \in Elements(pending)' <=> r \in Elements(pending)
           /\ r \in Processing' <=> r \in Processing
           /\ r \in Dead' <=> r \in Dead
  PROVE  phase'[j] = phase[j] /\ tries'[j] = tries[j]
<1>1. Copies(j)' = Copies(j)
  BY DEF Copies
<1>2. /\ (\E r \in Processing : r.id = j)' <=> \E r \in Processing : r.id = j
      /\ (\E r \in Dead : r.id = j)' <=> \E r \in Dead : r.id = j
      /\ (\E r \in Elements(pending) : r.id = j)' <=> \E r \in Elements(pending) : r.id = j
  OBVIOUS
<1> QED
  BY <1>1, <1>2 DEF phase, tries

\* A step that moves copies of j only changes j only.
LEMMA OneJob ==
  ASSUME Mapped, Mapped', NEW j \in Jobs, accepted' = accepted,
         \A r : r.id # j =>
           /\ r \in Elements(pending)' <=> r \in Elements(pending)
           /\ r \in Processing' <=> r \in Processing
           /\ r \in Dead' <=> r \in Dead
  PROVE  /\ phase' = [phase EXCEPT ![j] = phase'[j]]
         /\ tries' = [tries EXCEPT ![j] = tries'[j]]
<1>1. /\ phase = [i \in Jobs |-> phase[i]] /\ phase' = [i \in Jobs |-> phase'[i]]
      /\ tries = [i \in Jobs |-> tries[i]] /\ tries' = [i \in Jobs |-> tries'[i]]
  BY DEF Mapped
<1>2. \A i \in Jobs \ {j} : phase'[i] = phase[i] /\ tries'[i] = tries[i]
  BY SameJob
<1>3. phase' = [phase EXCEPT ![j] = phase'[j]]
  BY <1>1, <1>2
<1>4. tries' = [tries EXCEPT ![j] = tries'[j]]
  BY <1>1, <1>2
<1> QED
  BY <1>3, <1>4

LEMMA MapSubmit ==
  ASSUME Inv, Mapped, Mapped', NEW batch \in Batches, Enqueue(batch)
  PROVE  Promise!Next
<1> DEFINE ids == {batch[i] : i \in DOMAIN batch}
           jobs == {NewJob(batch[i]) : i \in DOMAIN batch}
<1>0. QueueTypeOK /\ Live \subseteq accepted
  BY DEF Inv, TypeInv, TypeOK, CustodyInv
<1>1. ids \cap accepted = {} /\ ids \subseteq Jobs
  BY DEF Batches
<1>2. /\ Elements(pending)' = Elements(pending) \cup jobs
      /\ Processing' = Processing /\ Dead' = Dead
  BY <1>0, EnqueueContents
<1>3. accepted' = accepted \cup ids /\ acked' = acked
  BY DEF Enqueue
<1>4. \A r \in jobs : r.id \in ids
  BY DEF NewJob
<1>5. \A j \in ids : \E r \in jobs : r.id = j /\ r.attempts = 0
  <2> SUFFICES ASSUME NEW i \in DOMAIN batch
               PROVE  \E r \in jobs : r.id = batch[i] /\ r.attempts = 0
    OBVIOUS
  <2>1. NewJob(batch[i]) \in jobs
    OBVIOUS
  <2> QED
    BY <2>1 DEF NewJob
<1> HIDE DEF ids, jobs
<1>6. \A j \in ids : /\ phase[j] = "new" /\ tries[j] = 0
                     /\ phase'[j] = "waiting" /\ tries'[j] = 0
  BY <1>0, <1>1, <1>2, <1>5 DEF Mapped
<1>7. \A j \in Jobs \ ids : phase'[j] = phase[j] /\ tries'[j] = tries[j]
  BY <1>2, <1>3, <1>4, SameJob
<1>8. /\ phase' = [j \in Jobs |-> IF j \in ids THEN "waiting" ELSE phase[j]]
      /\ tries' = tries
  <2>1. /\ phase' = [j \in Jobs |-> phase'[j]]
        /\ tries = [j \in Jobs |-> tries[j]] /\ tries' = [j \in Jobs |-> tries'[j]]
    BY DEF Mapped
  <2>2. \A j \in Jobs : /\ tries'[j] = tries[j]
                        /\ phase'[j] = IF j \in ids THEN "waiting" ELSE phase[j]
    BY <1>6, <1>7
  <2>3. tries' = tries
    BY <2>1, <2>2
  <2>4. phase' = [j \in Jobs |-> IF j \in ids THEN "waiting" ELSE phase[j]]
    BY <2>1, <2>2
  <2> QED
    BY <2>3, <2>4
<1>9. Promise!Submit(ids)
  BY <1>3, <1>6, <1>8 DEF Promise!Submit
<1> QED
  BY <1>1, <1>9 DEF Promise!Next

LEMMA MapDeliver ==
  ASSUME Inv, Mapped, Mapped', MoveToProcessing
  PROVE  Promise!Next
<1> DEFINE h == Head(pending)
<1>0. TypeInv /\ QueueTypeOK /\ SingleCopy
  BY DEF Inv, TypeInv, TypeOK
<1>1. /\ h \in Elements(pending) /\ h \in Raw
      /\ Elements(pending)' \subseteq Elements(pending)
      /\ Elements(pending) \subseteq Elements(pending)' \cup {h}
      /\ Processing' = Processing \cup {h} /\ Dead' = Dead
      /\ accepted' = accepted /\ acked' = acked
  BY <1>0, MoveContents, MoveType DEF MoveToProcessing
<1> HIDE DEF h
<1>2. h.id \in Jobs
  BY <1>1, RawFields
<1>3. phase[h.id] = "waiting" /\ tries[h.id] = h.attempts
  BY <1>1 DEF Mapped
<1>4. phase'[h.id] = "running" /\ tries'[h.id] = h.attempts
  BY <1>1 DEF Mapped
<1>5. /\ phase' = [phase EXCEPT ![h.id] = phase'[h.id]]
      /\ tries' = [tries EXCEPT ![h.id] = tries'[h.id]]
  BY <1>1, <1>2, OneJob
<1>6. tries' = tries
  BY <1>2, <1>3, <1>4, <1>5 DEF Mapped
<1>7. Promise!Deliver(h.id)
  BY <1>1, <1>3, <1>4, <1>5, <1>6 DEF Promise!Deliver
<1> QED
  BY <1>2, <1>7 DEF Promise!Next

\* LREM of a reserved attempt takes its job out of the lists.
LEMMA MapDepart ==
  ASSUME Inv, Inv', Mapped, Mapped', NEW r \in Raw, r \in Processing,
         processing' = LRem(processing, r), pending' = pending, dead' = dead,
         accepted' = accepted
  PROVE  Promise!Depart(r.id)
<1>0. TypeInv /\ QueueTypeOK /\ SingleCopy /\ Live \subseteq accepted
  BY DEF Inv, TypeInv, TypeOK, CustodyInv
<1>1. /\ Processing' \subseteq Processing /\ Processing \subseteq Processing' \cup {r}
      /\ r \notin Processing'
      /\ Elements(pending)' = Elements(pending) /\ Dead' = Dead
  BY <1>0, RemoveContents, RemoveUnique DEF Elements, Dead
<1>2. r.id \in Jobs /\ r.id \in accepted
  BY <1>0, RawFields DEF Live
<1>3. \A s \in Elements(pending)' \cup Processing' \cup Dead' : s.id # r.id
  <2>1. \A s \in Elements(pending) : s.id # r.id
    BY <1>0 DEF SingleCopy
  <2>2. \A s \in Processing \cup Dead : s.id = r.id => s = r
    BY <1>0 DEF SingleCopy
  <2>3. r \notin Dead
    BY <1>0 DEF SingleCopy
  <2> QED
    BY <1>1, <2>1, <2>2, <2>3
<1>4. r.id \in Jobs \ Live'
  BY <1>2, <1>3 DEF Live
<1>5. phase[r.id] = "running"
  BY DEF Mapped
<1>6. phase'[r.id] = "gone" /\ tries'[r.id] = 0
  BY <1>2, <1>4 DEF Mapped
<1>7. /\ phase' = [phase EXCEPT ![r.id] = phase'[r.id]]
      /\ tries' = [tries EXCEPT ![r.id] = tries'[r.id]]
  BY <1>1, <1>2, OneJob
<1> QED
  BY <1>5, <1>6, <1>7 DEF Promise!Depart

\* A step that leaves the lists alone changes no job.
LEMMA MapStutter ==
  ASSUME Mapped, Mapped', UNCHANGED <<listVars, accepted>>
  PROVE  phase' = phase /\ tries' = tries
<1>1. /\ Elements(pending)' = Elements(pending) /\ Processing' = Processing
      /\ Dead' = Dead /\ accepted' = accepted
  BY DEF listVars, Elements, Processing, Dead
<1>2. /\ phase = [i \in Jobs |-> phase[i]] /\ phase' = [i \in Jobs |-> phase'[i]]
      /\ tries = [i \in Jobs |-> tries[i]] /\ tries' = [i \in Jobs |-> tries'[i]]
  BY DEF Mapped
<1>3. \A i \in Jobs : phase'[i] = phase[i] /\ tries'[i] = tries[i]
  BY <1>1, SameJob
<1>4. phase' = phase
  BY <1>2, <1>3
<1>5. tries' = tries
  BY <1>2, <1>3
<1> QED
  BY <1>4, <1>5

LEMMA MapAcknowledge ==
  ASSUME Inv, Inv', Mapped, Mapped', NEW r \in Raw, Acknowledge(r)
  PROVE  Promise!Next
<1>0. /\ QueueTypeOK /\ acked' \subseteq accepted' /\ r.id \in Jobs
  BY RawFields DEF Inv, TypeInv, TypeOK, KnownInv
<1>1. /\ processing' = LRem(processing, r) /\ pending' = pending /\ dead' = dead
      /\ accepted' = accepted /\ acked' = acked \cup {r.id}
  BY DEF Acknowledge
<1>2. phase[r.id] # "new"
  BY <1>0, <1>1 DEF Mapped
<1>3. CASE r \in Processing
  <2>1. Promise!Depart(r.id)
    BY <1>1, <1>3, MapDepart
  <2> QED
    BY <1>0, <1>1, <1>2, <2>1 DEF Promise!Acknowledge, Promise!Next
<1>4. CASE r \notin Processing
  <2>1. processing' = processing
    <3>1. processing \in [Raw -> Nat] /\ processing[r] = 0
      BY <1>0, <1>4 DEF QueueTypeOK, Processing
    <3> QED
      BY <1>1, <3>1 DEF LRem
  <2>2. phase' = phase /\ tries' = tries
    BY <1>1, <2>1, MapStutter DEF listVars
  <2> QED
    BY <1>0, <1>1, <1>2, <2>2 DEF Promise!Acknowledge, Promise!Next
<1> QED
  BY <1>3, <1>4

LEMMA MapDiscard ==
  ASSUME Inv, Inv', Mapped, Mapped', NEW r \in Raw, r.id \in acked, DropCompleted(r)
  PROVE  Promise!Next \/ UNCHANGED Promise!vars
<1>0. QueueTypeOK /\ r.id \in Jobs
  BY RawFields DEF Inv, TypeInv, TypeOK
<1>1. /\ processing' = LRem(processing, r) /\ pending' = pending /\ dead' = dead
      /\ accepted' = accepted /\ acked' = acked
  BY DEF DropCompleted
<1>2. CASE r \in Processing
  <2>1. Promise!Depart(r.id)
    BY <1>1, <1>2, MapDepart
  <2> QED
    BY <1>0, <1>1, <2>1 DEF Promise!Discard, Promise!Next
<1>3. CASE r \notin Processing
  <2>1. processing' = processing
    <3>1. processing \in [Raw -> Nat] /\ processing[r] = 0
      BY <1>0, <1>3 DEF QueueTypeOK, Processing
    <3> QED
      BY <1>1, <3>1 DEF LRem
  <2>2. phase' = phase /\ tries' = tries
    BY <1>1, <2>1, MapStutter DEF listVars
  <2> QED
    BY <1>1, <2>2 DEF Promise!vars
<1> QED
  BY <1>2, <1>3

LEMMA MapRetry ==
  ASSUME Inv, Mapped, Mapped', NEW r \in Processing, RetryOrDeadLetter(r)
  PROVE  Promise!Next
<1> DEFINE next == Retried(r)
<1>0. QueueTypeOK /\ r \in Raw /\ r.attempts \in Nat /\ r.attempts <= MaxRetries
  BY RawFields DEF Inv, TypeInv, TypeOK, CustodyInv, AttemptsBounded, Processing
<1>1. /\ next.id = r.id /\ next.attempts = r.attempts + 1
      /\ Processing' \subseteq Processing /\ Processing \subseteq Processing' \cup {r}
      /\ \/ /\ r.attempts < MaxRetries
            /\ Elements(pending)' = Elements(pending) \cup {next}
            /\ Dead' = Dead
         \/ /\ r.attempts = MaxRetries
            /\ Elements(pending)' = Elements(pending)
            /\ Dead' = Dead \cup {next}
  BY <1>0, RetryContents
<1>2. accepted' = accepted /\ acked' = acked
  BY DEF RetryOrDeadLetter
<1> HIDE DEF next
<1>3. r.id \in Jobs
  BY <1>0, RawFields
<1>4. /\ phase' = [phase EXCEPT ![r.id] = phase'[r.id]]
      /\ tries' = [tries EXCEPT ![r.id] = tries'[r.id]]
  BY <1>1, <1>2, <1>3, OneJob
<1>5. phase[r.id] = "running" /\ tries[r.id] = r.attempts
  BY DEF Mapped
<1>6. tries' = [tries EXCEPT ![r.id] = @ + 1]
  <2>1. tries'[r.id] = r.attempts + 1
    BY <1>1 DEF Mapped
  <2> QED
    BY <1>4, <1>5, <2>1
<1>7. CASE r.attempts < MaxRetries
  <2>1. phase'[r.id] = "waiting"
    BY <1>0, <1>1, <1>7 DEF Mapped
  <2>2. Promise!GiveBack(r.id)
    BY <1>2, <1>4, <1>5, <1>6, <1>7, <2>1 DEF Promise!GiveBack
  <2> QED
    BY <1>3, <2>2 DEF Promise!Next
<1>8. CASE r.attempts = MaxRetries
  <2>1. phase'[r.id] = "dead"
    BY <1>0, <1>1, <1>8 DEF Mapped
  <2>2. Promise!Bury(r.id)
    BY <1>2, <1>4, <1>5, <1>6, <1>8, <2>1 DEF Promise!Bury
  <2> QED
    BY <1>3, <2>2 DEF Promise!Next
<1> QED
  BY <1>1, <1>7, <1>8

LEMMA MapReset ==
  ASSUME Mapped, Mapped', Clear
  PROVE  Promise!Next
<1>1. Live' = {} /\ accepted' = accepted /\ acked' = acked
  BY DEF Clear, Live, EmptyBag, Elements, Processing, Dead
<1>2. \A j \in Jobs : /\ phase'[j] = IF phase[j] = "new" THEN "new" ELSE "gone"
                      /\ tries'[j] = 0
  BY <1>1 DEF Mapped
<1>3. phase' = [j \in Jobs |-> phase'[j]] /\ tries' = [j \in Jobs |-> tries'[j]]
  BY DEF Mapped
<1>4. phase' = [j \in Jobs |-> IF phase[j] = "new" THEN "new" ELSE "gone"]
  BY <1>2, <1>3
<1>5. tries' = [j \in Jobs |-> 0]
  BY <1>2, <1>3
<1> QED
  BY <1>1, <1>4, <1>5 DEF Promise!Reset, Promise!Next

LEMMA MapInit == Init => Promise!Init
<1> SUFFICES ASSUME Init PROVE Promise!Init
  OBVIOUS
<1>1. /\ Elements(pending) = {} /\ Processing = {} /\ Dead = {}
      /\ accepted = {} /\ acked = {}
  BY DEF Init, QueueInit, EmptyBag, Elements, Processing, Dead
<1>2. \A j \in Jobs : Copies(j) = {}
  BY <1>1 DEF Copies
<1>3. phase = [j \in Jobs |-> "new"]
  BY <1>1 DEF phase
<1>4. tries = [j \in Jobs |-> 0]
  BY <1>2 DEF tries
<1> QED
  BY <1>1, <1>3, <1>4 DEF Promise!Init

\* Every step of the workers, the handlers, the faults and the clock is a step
\* of the abstract job's life or leaves it alone.
LEMMA MapNext ==
  Inv /\ Inv' /\ Mapped /\ Mapped' /\ QueueNext => [Promise!Next]_(Promise!vars)
<1> SUFFICES ASSUME Inv, Inv', Mapped, Mapped', QueueNext
             PROVE  Promise!Next \/ UNCHANGED Promise!vars
  OBVIOUS
<1>1. ASSUME NEW batch \in Batches, Enqueue(batch)
      PROVE  Promise!Next
  BY <1>1, MapSubmit
<1>2. CASE MoveToProcessing
  BY <1>2, MapDeliver
<1>3. ASSUME NEW r \in Raw, Acknowledge(r)
      PROVE  Promise!Next
  BY <1>3, MapAcknowledge
<1>4. ASSUME NEW r \in Raw, r.id \in acked, DropCompleted(r)
      PROVE  Promise!Next \/ UNCHANGED Promise!vars
  BY <1>4, MapDiscard
<1>5. ASSUME NEW r \in Processing, RetryOrDeadLetter(r)
      PROVE  Promise!Next
  BY <1>5, MapRetry
<1>6. CASE Clear
  BY <1>6, MapReset
<1>7. CASE UNCHANGED <<listVars, accepted, acked, cleared>>
  BY <1>7, MapStutter DEF Promise!vars
<1> QED
  BY <1>1, <1>2, <1>3, <1>4, <1>5, <1>6, <1>7 DEF QueueNext

\* The queue of sample-fastapi, with its leases, recovery passes, crashes and
\* lost replies, implements the at-least-once promise: each job's life is one
\* AtLeastOnce allows, whatever the number of jobs, workers and faults.
THEOREM Implements == Spec => ImplementsAtLeastOnce
<1>1. Inv /\ [Next]_vars => [Promise!Next]_(Promise!vars)
  <2> SUFFICES ASSUME Inv, [Next]_vars PROVE [Promise!Next]_(Promise!vars)
    OBVIOUS
  <2>1. Inv' /\ QueueNext
    BY NextInv
  <2>2. Mapped
    BY Mapping
  <2>3. Mapped'
    <3>1. Inv' => Mapped'
      BY Mapping, PTL
    <3> QED
      BY <2>1, <3>1
  <2> QED
    BY <2>1, <2>2, <2>3, MapNext
<1> QED
  BY <1>1, InvHolds, MapInit, PTL DEF ImplementsAtLeastOnce, Promise!Spec, Spec

=============================================================================
