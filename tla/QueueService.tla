---------------------------- MODULE QueueService ----------------------------
(***************************************************************************)
(* The Redis-backed queue of apps/sample-fastapi/queue_service.py.         *)
(*                                                                         *)
(* This module holds the keys one queue owns in Redis and the atomic       *)
(* commands and MULTI/EXEC transactions QueueService issues against them,  *)
(* one operator for each.  JobQueue composes them into the Worker and the  *)
(* HTTP handlers, which is where their interleaving happens.               *)
(*                                                                         *)
(* A job's serialized form is abstracted to the two fields that decide     *)
(* what happens to it: its id and its attempts counter.  The counter is    *)
(* part of the serialized string, so a retried job is a DIFFERENT member   *)
(* of the lists and of the lease set than the attempt before it.           *)
(***************************************************************************)
EXTENDS Naturals, Sequences

CONSTANTS
  Jobs,        \* job identifiers (uuid4), each enqueued at most once
  MaxRetries,  \* Settings.queue_max_retries
  MaxBatch     \* bound on the size of a bulk request, for model checking

ASSUME QueueAssumption == MaxRetries \in Nat /\ MaxBatch \in Nat

VARIABLES
  pending,     \* List  <queue>             : FIFO sequence of serialized jobs
  processing,  \* List  <queue>:processing  : number of copies of each job
  dead,        \* List  <queue>:dead-letter : number of copies of each job
  lease,       \* ZSET  <queue>:leases      : deadline ahead, passed, or no member
  completed,   \* keys  <queue>:completed:<id> that exist
  accepted,    \* history: ids ever pushed to the queue
  acked,       \* history: ids ever acknowledged
  cleared      \* history: ids a reset found in one of the lists

listVars  == <<pending, processing, dead>>
redisVars == <<pending, processing, dead, lease, completed>>
queueVars == <<pending, processing, dead, lease, completed, accepted, acked, cleared>>

Raw == [id : Jobs, attempts : 0..(MaxRetries + 1)]

NewJob(j) == [id |-> j, attempts |-> 0]

\* Mutant of Retried: the attempts counter is copied instead of incremented.
RetriedUncounted(r) == [id |-> r.id, attempts |-> r.attempts]

Retried(r) == [id |-> r.id, attempts |-> r.attempts + 1]

Elements(s) == {s[i] : i \in 1..Len(s)}

\* RPUSH on, and LREM key 1 value from, a list whose order nothing reads.
Push(bag, r) == [bag EXCEPT ![r] = @ + 1]
LRem(bag, r) == [bag EXCEPT ![r] = IF @ > 0 THEN @ - 1 ELSE 0]

EmptyBag    == [r \in Raw |-> 0]
Processing  == {r \in Raw : processing[r] > 0}
Dead        == {r \in Raw : dead[r] > 0}
Leased      == {r \in Raw : lease[r] # "none"}
Expired     == {r \in Raw : lease[r] = "expired"}

\* The jobs held by one of the three lists.
Live == {r.id : r \in Elements(pending) \cup Processing \cup Dead}

-----------------------------------------------------------------------------
QueueTypeOK ==
  /\ pending \in Seq(Raw)
  /\ processing \in [Raw -> Nat]
  /\ dead \in [Raw -> Nat]
  /\ lease \in [Raw -> {"none", "live", "expired"}]
  /\ completed \subseteq Jobs
  /\ accepted \subseteq Jobs
  /\ acked \subseteq Jobs
  /\ cleared \subseteq Jobs

QueueInit ==
  /\ pending = <<>>
  /\ processing = EmptyBag
  /\ dead = EmptyBag
  /\ lease = [r \in Raw |-> "none"]
  /\ completed = {}
  /\ accepted = {}
  /\ acked = {}
  /\ cleared = {}

-----------------------------------------------------------------------------
\* The non-empty batches of distinct new ids; enqueue() pushes a batch of one.
Batches ==
  {s \in UNION {[1..n -> Jobs \ accepted] : n \in 1..MaxBatch} :
     \A i, k \in DOMAIN s : s[i] = s[k] => i = k}

\* RPUSH of one job, or of a whole batch in one transaction.
Enqueue(batch) ==
  /\ pending' = pending \o [i \in DOMAIN batch |-> NewJob(batch[i])]
  /\ accepted' = accepted \cup {batch[i] : i \in DOMAIN batch}
  /\ UNCHANGED <<processing, dead, lease, completed, acked, cleared>>

\* Mutant of MoveToProcessing: a plain LPOP, without the processing list.
PopPending ==
  /\ pending # <<>>
  /\ pending' = Tail(pending)
  /\ UNCHANGED <<processing, dead, lease, completed, accepted, acked, cleared>>

\* LMOVE / BLMOVE <queue> <queue>:processing LEFT RIGHT.
MoveToProcessing ==
  /\ pending # <<>>
  /\ pending' = Tail(pending)
  /\ processing' = Push(processing, Head(pending))
  /\ UNCHANGED <<dead, lease, completed, accepted, acked, cleared>>

\* Mutant of AddLease, EnsureLease and RemoveLease: the command is forgotten.
LeaveLeases(r) ==
  /\ r \in Raw
  /\ UNCHANGED queueVars

\* ZADD of reserve(): overwrites whatever deadline the member had.
AddLease(r) ==
  /\ lease' = [lease EXCEPT ![r] = "live"]
  /\ UNCHANGED <<listVars, completed, accepted, acked, cleared>>

\* ZSCORE then ZADD NX of ensure_processing_leases(): never moves a deadline.
EnsureLease(r) ==
  /\ lease' = [lease EXCEPT ![r] = IF @ = "none" THEN "live" ELSE @]
  /\ UNCHANGED <<listVars, completed, accepted, acked, cleared>>

\* ZREM of the "missing" outcome of retry_or_dead_letter().
RemoveLease(r) ==
  /\ lease' = [lease EXCEPT ![r] = "none"]
  /\ UNCHANGED <<listVars, completed, accepted, acked, cleared>>

\* acknowledge(): SET completed, LREM processing, ZREM leases in one MULTI.
Acknowledge(r) ==
  /\ completed' = completed \cup {r.id}
  /\ acked' = acked \cup {r.id}
  /\ processing' = LRem(processing, r)
  /\ lease' = [lease EXCEPT ![r] = "none"]
  /\ UNCHANGED <<pending, dead, accepted, cleared>>

\* The already_completed branch of recover_stale().
DropCompleted(r) ==
  /\ processing' = LRem(processing, r)
  /\ lease' = [lease EXCEPT ![r] = "none"]
  /\ UNCHANGED <<pending, dead, completed, accepted, acked, cleared>>

\* Mutant of RetryOrDeadLetter: the comparison with max_retries is off by one.
BuryEarly(r) ==
  LET next == Retried(r) IN
  /\ processing' = LRem(processing, r)
  /\ lease' = [lease EXCEPT ![r] = "none"]
  /\ IF next.attempts < MaxRetries
       THEN /\ pending' = Append(pending, next)
            /\ UNCHANGED dead
       ELSE /\ dead' = Push(dead, next)
            /\ UNCHANGED pending
  /\ UNCHANGED <<completed, accepted, acked, cleared>>

\* Mutant of RetryOrDeadLetter: max_retries is never consulted.
RetryForever(r) ==
  /\ processing' = LRem(processing, r)
  /\ lease' = [lease EXCEPT ![r] = "none"]
  /\ pending' = Append(pending, Retried(r))
  /\ UNCHANGED <<dead, completed, accepted, acked, cleared>>

\* The MULTI of retry_or_dead_letter(): the next attempt goes to the tail of
\* the queue, or to the dead letters once the retries are used up.
RetryOrDeadLetter(r) ==
  LET next == Retried(r) IN
  /\ processing' = LRem(processing, r)
  /\ lease' = [lease EXCEPT ![r] = "none"]
  /\ IF next.attempts <= MaxRetries
       THEN /\ pending' = Append(pending, next)
            /\ UNCHANGED dead
       ELSE /\ dead' = Push(dead, next)
            /\ UNCHANGED pending
  /\ UNCHANGED <<completed, accepted, acked, cleared>>

\* clear(): the DEL of the four keys and of the markers its earlier SCAN saw;
\* a marker written behind the cursor survives, so any of them may.
Clear ==
  /\ cleared' = cleared \cup Live
  /\ pending' = <<>>
  /\ processing' = EmptyBag
  /\ dead' = EmptyBag
  /\ lease' = [r \in Raw |-> "none"]
  /\ \E survivors \in SUBSET completed : completed' = survivors
  /\ UNCHANGED <<accepted, acked>>

-----------------------------------------------------------------------------
\* Time: a recorded deadline passes, a completed marker reaches its TTL.
LeaseExpires(r) ==
  /\ lease[r] = "live"
  /\ lease' = [lease EXCEPT ![r] = "expired"]
  /\ UNCHANGED <<listVars, completed, accepted, acked, cleared>>

MarkerExpires(j) ==
  /\ j \in completed
  /\ completed' = completed \ {j}
  /\ UNCHANGED <<listVars, lease, accepted, acked, cleared>>

=============================================================================
