------------------------------ MODULE JobQueue ------------------------------
(***************************************************************************)
(* The reliable job queue of apps/sample-fastapi: Worker processes         *)
(* (worker.py) and HTTP request handlers (main.py) sharing one             *)
(* QueueService.                                                           *)
(*                                                                         *)
(* Every step is one Redis command or one MULTI/EXEC transaction, so the   *)
(* processes interleave exactly where the code lets them.  The only        *)
(* optimistic transaction, the WATCH of retry_or_dead_letter(), is kept:   *)
(* "dirty" holds the processes whose watched key has been written since.   *)
(***************************************************************************)
EXTENDS QueueService

CONSTANTS
  Workers,     \* queue-worker processes
  Handlers,    \* request handlers of /api/queue/process
  Poison,      \* jobs whose process_job() raises (payload over the timeout)
  MaxEvents,   \* bound on crashes, Redis errors, resets and expiries of markers
  NoJob        \* what a process without a reservation holds

Procs == Workers \cup Handlers

ASSUME ProcsAssumption ==
  /\ Workers \cap Handlers = {}
  /\ Poison \subseteq Jobs
  /\ MaxEvents \in Nat
  /\ NoJob \notin Raw

VARIABLES
  pc,          \* next step of each process
  job,         \* the serialized job each process works on
  todo,        \* recovery pass: members still to look at
  fresh,       \* leases written by the recovery pass a worker is in: their
               \* deadline lies after the "now" that pass compares with
  recovering,  \* workers that are inside recover_stale()
  dirty,       \* workers whose WATCH has been broken
  events       \* those events so far, a bound for model checking only

procVars == <<pc, job, todo, fresh, recovering, dirty>>
vars == <<queueVars, procVars, events>>

Steps == {"idle", "scan", "stale", "drop", "lpos", "exec", "unlease",
          "reserve", "lease", "check", "discard", "work", "ack"}

TypeOK ==
  /\ QueueTypeOK
  /\ pc \in [Procs -> Steps]
  /\ job \in [Procs -> Raw \cup {NoJob}]
  /\ todo \in [Procs -> SUBSET Raw]
  /\ fresh \in [Workers -> SUBSET Raw]
  /\ recovering \subseteq Workers
  /\ dirty \subseteq Workers
  /\ events \in 0..MaxEvents

Init ==
  /\ QueueInit
  /\ pc = [p \in Procs |-> "idle"]
  /\ job = [p \in Procs |-> NoJob]
  /\ todo = [p \in Procs |-> {}]
  /\ fresh = [w \in Workers |-> {}]
  /\ recovering = {}
  /\ dirty = {}
  /\ events = 0

-----------------------------------------------------------------------------
Goto(p, step) == pc' = [pc EXCEPT ![p] = step]
Hold(p, r)    == job' = [job EXCEPT ![p] = r]

\* A write to <queue>:processing by p breaks every other WATCH on it.
TouchProcessing(p) ==
  dirty' = IF processing' = processing
             THEN dirty \ {p}
             ELSE {q \in Workers \ {p} : pc[q] = "exec"}

\* run_once() and a request end, normally or by an exception, with no local
\* state left; the recovery pass goes on to its next stale member.
Finish(p) ==
  /\ Goto(p, "idle")
  /\ Hold(p, NoJob)

EndRetry(w) ==
  /\ Goto(w, IF w \in recovering THEN "stale" ELSE "idle")
  /\ Hold(w, NoJob)

-----------------------------------------------------------------------------
(* recover_stale_jobs() and recover_stale() *)

\* The interval has elapsed: LRANGE the processing list.
BeginRecovery(w) ==
  /\ pc[w] = "idle"
  /\ Goto(w, "scan")
  /\ todo' = [todo EXCEPT ![w] = Processing]
  /\ recovering' = recovering \cup {w}
  /\ UNCHANGED <<queueVars, job, fresh, dirty, events>>

\* ensure_processing_leases(): one listed job gets a deadline if it has none.
EnsureOneLease(w) ==
  /\ pc[w] = "scan"
  /\ \E r \in todo[w] :
       /\ EnsureLease(r)
       /\ fresh' = IF r \in Leased THEN fresh
                   ELSE [q \in Workers |-> IF q = w THEN fresh[q] \cup {r}
                                           ELSE fresh[q] \ {r}]
       /\ todo' = [todo EXCEPT ![w] = @ \ {r}]
  /\ UNCHANGED <<pc, job, recovering, dirty, events>>

\* ZRANGEBYSCORE leases -inf now.  The scores come from other pods' clocks, so
\* only the deadlines this very pass wrote are certain to lie after its "now".
FetchStale(w) ==
  /\ pc[w] = "scan"
  /\ todo[w] = {}
  /\ todo' = [todo EXCEPT ![w] = Expired \ fresh[w]]
  /\ fresh' = [fresh EXCEPT ![w] = {}]
  /\ Goto(w, "stale")
  /\ UNCHANGED <<queueVars, job, recovering, dirty, events>>

\* is_completed() of the next stale member decides its branch.
CheckStale(w) ==
  /\ pc[w] = "stale"
  /\ \E r \in todo[w] :
       /\ todo' = [todo EXCEPT ![w] = @ \ {r}]
       /\ Hold(w, r)
       /\ Goto(w, IF r.id \in completed THEN "drop" ELSE "lpos")
  /\ UNCHANGED <<queueVars, fresh, recovering, dirty, events>>

DropStale(w) ==
  /\ pc[w] = "drop"
  /\ DropCompleted(job[w])
  /\ TouchProcessing(w)
  /\ Goto(w, "stale")
  /\ Hold(w, NoJob)
  /\ UNCHANGED <<todo, fresh, recovering, events>>

EndRecovery(w) ==
  /\ pc[w] = "stale"
  /\ todo[w] = {}
  /\ Goto(w, "reserve")
  /\ recovering' = recovering \ {w}
  /\ UNCHANGED <<queueVars, job, todo, fresh, dirty, events>>

-----------------------------------------------------------------------------
(* retry_or_dead_letter() *)

\* WATCH processing; LPOS processing raw.
WatchProcessing(w) ==
  /\ pc[w] = "lpos"
  /\ Goto(w, IF job[w] \in Processing THEN "exec" ELSE "unlease")
  /\ UNCHANGED <<queueVars, job, todo, fresh, recovering, dirty, events>>

\* Not listed any more: another process settled it; only the lease is left.
Missing(w) ==
  /\ pc[w] = "unlease"
  /\ RemoveLease(job[w])
  /\ EndRetry(w)
  /\ UNCHANGED <<todo, fresh, recovering, dirty, events>>

\* Mutant of ExecRetry: the transaction runs without a WATCH.
ExecUnwatched(w) ==
  /\ pc[w] = "exec"
  /\ RetryOrDeadLetter(job[w])
  /\ TouchProcessing(w)
  /\ EndRetry(w)
  /\ UNCHANGED <<todo, fresh, recovering, events>>

\* EXEC after an undisturbed WATCH.
ExecRetry(w) ==
  /\ pc[w] = "exec"
  /\ w \notin dirty
  /\ RetryOrDeadLetter(job[w])
  /\ TouchProcessing(w)
  /\ EndRetry(w)
  /\ UNCHANGED <<todo, fresh, recovering, events>>

\* WatchError: start over.
ExecConflict(w) ==
  /\ pc[w] = "exec"
  /\ w \in dirty
  /\ dirty' = dirty \ {w}
  /\ Goto(w, "lpos")
  /\ UNCHANGED <<queueVars, job, todo, fresh, recovering, events>>

\* The transaction was applied but the connection died before its reply:
\* redis-py raises WatchError for a watching pipeline, and the loop repeats.
ExecReplyLost(w) ==
  /\ events < MaxEvents
  /\ events' = events + 1
  /\ pc[w] = "exec"
  /\ w \notin dirty
  /\ RetryOrDeadLetter(job[w])
  /\ TouchProcessing(w)
  /\ Goto(w, "lpos")
  /\ UNCHANGED <<job, todo, fresh, recovering>>

-----------------------------------------------------------------------------
(* reserve(), the rest of run_once(), and dequeue() for the handlers *)

\* LMOVE / BLMOVE.  A worker may come here without a recovery pass, when the
\* recovery interval has not elapsed.
Reserve(p) ==
  /\ pc[p] \in {"idle", "reserve"}
  /\ MoveToProcessing
  /\ Hold(p, Head(pending))
  /\ TouchProcessing(p)
  /\ Goto(p, "lease")
  /\ UNCHANGED <<todo, fresh, recovering, events>>

\* BLMOVE timed out.
NothingPending(w) ==
  /\ pc[w] = "reserve"
  /\ pending = <<>>
  /\ Goto(w, "idle")
  /\ UNCHANGED <<queueVars, job, todo, fresh, recovering, dirty, events>>

\* ZADD leases: a second command, after the move.
RecordLease(p) ==
  /\ pc[p] = "lease"
  /\ AddLease(job[p])
  /\ fresh' = [q \in Workers |-> fresh[q] \ {job[p]}]
  /\ Goto(p, IF p \in Workers THEN "check" ELSE "ack")
  /\ UNCHANGED <<job, todo, recovering, dirty, events>>

CheckCompleted(w) ==
  /\ pc[w] = "check"
  /\ Goto(w, IF job[w].id \in completed THEN "discard" ELSE "work")
  /\ UNCHANGED <<queueVars, job, todo, fresh, recovering, dirty, events>>

\* acknowledge(): after process_job(), of a job found completed, or at once
\* by dequeue().  A poisoned job never gets here: its process_job() raises.
Ack(p) ==
  /\ \/ pc[p] = "work" /\ job[p].id \notin Poison
     \/ pc[p] \in {"discard", "ack"}
  /\ Acknowledge(job[p])
  /\ TouchProcessing(p)
  /\ Finish(p)
  /\ UNCHANGED <<todo, fresh, recovering, events>>

\* process_job() raised.
ProcessFails(w) ==
  /\ pc[w] = "work"
  /\ job[w].id \in Poison
  /\ Goto(w, "lpos")
  /\ UNCHANGED <<queueVars, job, todo, fresh, recovering, dirty, events>>

\* The acknowledge() inside the try block raised a RedisError, whether or not
\* the server applied the transaction: the worker treats the job as failed.
AckError(w) ==
  /\ events < MaxEvents
  /\ events' = events + 1
  /\ pc[w] = "work"
  /\ job[w].id \notin Poison
  /\ \/ Acknowledge(job[w]) /\ TouchProcessing(w)
     \/ UNCHANGED <<queueVars, dirty>>
  /\ Goto(w, "lpos")
  /\ UNCHANGED <<job, todo, fresh, recovering>>

-----------------------------------------------------------------------------
\* A process dies, or a RedisError leaves run_once() or the request: either
\* way its local state is gone and nothing is undone in Redis.
Crash(p) ==
  /\ events < MaxEvents
  /\ events' = events + 1
  /\ pc[p] # "idle"
  /\ Finish(p)
  /\ todo' = [todo EXCEPT ![p] = {}]
  /\ fresh' = [w \in Workers |-> IF w = p THEN {} ELSE fresh[w]]
  /\ recovering' = recovering \ {p}
  /\ dirty' = dirty \ {p}
  /\ UNCHANGED queueVars

\* POST /api/queue/join and /api/queue/bulk.
Join ==
  /\ \E batch \in Batches : Enqueue(batch)
  /\ UNCHANGED <<procVars, events>>

\* DELETE /api/queue/reset.
Reset ==
  /\ events < MaxEvents
  /\ events' = events + 1
  /\ Clear
  /\ dirty' = {q \in Workers : pc[q] = "exec"}
  /\ UNCHANGED <<pc, job, todo, fresh, recovering>>

\* A deadline passes while processes are anywhere in their code.
Lapse(r) ==
  /\ LeaseExpires(r)
  /\ UNCHANGED <<procVars, events>>

Forget(j) ==
  /\ events < MaxEvents
  /\ events' = events + 1
  /\ MarkerExpires(j)
  /\ UNCHANGED procVars

WorkerStep(w) ==
  \/ BeginRecovery(w) \/ EnsureOneLease(w) \/ FetchStale(w)
  \/ CheckStale(w) \/ DropStale(w) \/ EndRecovery(w)
  \/ WatchProcessing(w) \/ Missing(w) \/ ExecRetry(w) \/ ExecConflict(w)
  \/ Reserve(w) \/ NothingPending(w) \/ RecordLease(w)
  \/ CheckCompleted(w) \/ Ack(w) \/ ProcessFails(w)

HandlerStep(h) == Reserve(h) \/ RecordLease(h) \/ Ack(h)

Fault ==
  \/ \E p \in Procs : Crash(p)
  \/ \E w \in Workers : ExecReplyLost(w) \/ AckError(w)

Next ==
  \/ Join
  \/ Reset
  \/ \E w \in Workers : WorkerStep(w)
  \/ \E h \in Handlers : HandlerStep(h)
  \/ Fault
  \/ \E r \in Raw : Lapse(r)
  \/ \E j \in Jobs : Forget(j)

Spec == Init /\ [][Next]_vars

\* Workers keep looping (run() only ends on SIGTERM, and the Deployment keeps
\* one replica) and deadlines pass.  Nothing else is assumed to happen.
Fairness ==
  /\ \A w \in Workers : WF_vars(WorkerStep(w))
  /\ \A r \in Raw : WF_vars(Lapse(r))

FairSpec == Spec /\ Fairness

-----------------------------------------------------------------------------
(* Safety *)

\* No accepted job is ever lost: until somebody acknowledges it or an operator
\* resets the queue, one of the three lists holds it, whatever crashes where
\* (RUNBOOK.md section 10: the structure prevents the loss of jobs).
NoLoss == accepted \subseteq Live \cup acked \cup cleared

\* A job has at most one copy over the three lists, however many recoverers
\* and failing workers race to move it: retry_or_dead_letter() never puts back
\* a job somebody else has moved or acknowledged.
SingleCopy ==
  /\ \A i, k \in 1..Len(pending) : pending[i].id = pending[k].id => i = k
  /\ \A r \in Raw : processing[r] <= 1 /\ dead[r] <= 1
  /\ \A r, s \in Processing \cup Dead : r.id = s.id => r = s
  /\ Processing \cap Dead = {}
  /\ \A r \in Elements(pending), s \in Processing \cup Dead : r.id # s.id

\* A queued or reserved job still has an attempt left, and a dead letter has
\* used its first attempt and every retry, neither more nor fewer.
AttemptsBounded ==
  /\ \A r \in Elements(pending) \cup Processing : r.attempts <= MaxRetries
  /\ \A r \in Dead : r.attempts = MaxRetries + 1

\* Processes that got their job from reserve(), not from a recovery pass.
Owners == {p \in Procs : job[p] # NoJob /\ p \notin recovering}

\* One attempt of a job is handed out once: two processes may work on the same
\* job after a lease ran out, never under the same attempts counter.
OneOwnerPerAttempt == \A p, q \in Owners : job[p] = job[q] => p = q

\* What the completed markers are for (is_completed()'s docstring): a recovery
\* pass does not put back or bury a job whose acknowledgement is on record.
CompletedNotRequeued ==
  [][\A w \in recovering :
       (pc[w] = "exec" /\ pc'[w] = "stale") => job[w].id \notin completed]_vars

\* A reset is final: no process that was holding a job of the old queue while
\* the lists were deleted brings that job back.
ResetIsFinal == cleared \cap Live = {}

-----------------------------------------------------------------------------
(* Liveness *)

\* Every accepted job ends up acknowledged, dead-lettered or reset, even when
\* its worker dies between BLMOVE and ZADD or between its work and its ACK.
EveryJobSettles ==
  \A j \in Jobs :
    (j \in accepted)
      ~> (j \in acked \cup cleared \/ \E r \in Dead : r.id = j)

\* A lease left behind without a processing entry (a ZADD that came after the
\* job had been moved) is eventually swept.
OrphanLeasesAreSwept ==
  \A r \in Raw :
    (lease[r] # "none" /\ r \notin Processing) ~> (lease[r] = "none")

=============================================================================
