# TLA+ models of the practical-project repository

This directory holds TLA+ specifications of the concurrent and stateful parts of
the repository, TLC configurations that check them on small instances, and TLAPS
proofs of the properties that matter most. Paths below are relative to the
repository root.

## 1. Inventory

The repository is a cloud-native test bed: a bank (a fork of Bank of Anthos), a
sample service with a Redis job queue, and a FinOps loop that right-sizes the
workloads. Its own code, component by component:

| Component | Code | State it keeps | Operations | What makes it correct |
|---|---|---|---|---|
| Job queue and worker | `apps/sample-fastapi/queue_service.py`, `worker.py`, `main.py` | Redis lists *pending*, *processing*, *dead-letter*, a sorted set of leases, completed markers; each worker's current job | enqueue, reserve, acknowledge, retry or dead-letter, recover stale, reset | no accepted job is lost or duplicated; retries are counted exactly; crashed workers' jobs come back; a reset is final |
| Policy engine | `finops/app/engine.py` | none (pure) | evaluate eight rules | a withheld reduction never reaches the final values; limits are respected; the risk thresholds mean what they say |
| Analysis service | `finops/app/main.py`, `clients.py` | last recommendation per container (TTL 24 h), KRR scan cache (TTL 5 min), `krr_logs` table | analyze one, a namespace, a batch; serve a recommendation | what a click applies is what was approved; caches never serve what expired |
| Approval gateway | `alarm/main.py` | in-memory batch registry, polling offset | send report, approve, reject, roll back | one click, one dispatch; a rejected or failed recommendation is not applied |
| GitOps workflows | `.github/workflows/finops-apply.yaml`, `rollback*.yaml` | GitOps repository | commit and push with rebase, wait for ArgoCD | no accepted request is dropped silently; a failed push does not report success |
| KRR stage report | `alarm/generate_report.py` | stage file (loose, medium, tight) | daily report | the stage only moves forward, one step at a time, after its time |
| Chronos service | `chronos/app.py`, `chronos_prometheus.py` | per target: latest forecast, validity, last error; the exported gauges | forecast loop, `/metrics`, `/predict`, readiness | an expired or failed forecast never scales anything; other modes than *active* never scale |
| Waiting room | `app-test/frontend/frontend.py` 93-321 | Redis: active tokens with TTL, active set, waiting line, heartbeats of pods and tokens | admission check per request, cleaning thread per pod | capacity is respected, first come first served, everybody eventually enters |
| Frontend pages | `app-test/frontend/frontend.py` 240-874 | cookies (token, consent, waiting token) | every route that renders or redirects; payments, deposits, sign-up, login | a click ends on a page; nothing is reported as done that was not |
| User and contacts services | `app-test/accounts` | users, contacts tables | sign up, log in, add contact | one account per name; a contact is stored once |
| Ledger writer | `app-test/ledger/ledgerwriter` | request-id cache per pod, ledger table (append only) | add a transaction | no duplicate, no overdraft |
| Balance reader, transaction history | `app-test/ledger/balancereader`, `transactionhistory` | loading caches, latest polled id | poll the ledger, answer a request | the cached balance equals the ledger's |
| Scale-in guard and load-test run | `scripts/run-bank-krr-test.sh` | annotations of ScaledObjects, state file, the test's Job | preflight, enable, run, collect, restore, stop | the annotations are put back; scale-in is paused while the test measures |
| Load-test collection and comparison | `k6/collect_bank_krr_run.py`, `compare_bank_krr_runs.py` | `collected.json`, `verdict.json` | collect, judge one run, compare two | a verdict is backed by what really happened; the criteria agree |
| Load endpoints, metrics, report texts, infrastructure, vendored copy | `apps/sample-fastapi/metrics.py`, `finops/app/formatter.py`, `infra/`, `scratch/` | none of their own, or declarative | - | not modelled (section 10) |

How they interact: the analysis service asks KRR, Prometheus and Chronos and posts
its report to the approval gateway; a click in Telegram makes the gateway read the
analysis service's recommendation cache and dispatch a GitHub workflow, which
commits to the GitOps repository. Chronos exports gauges that KEDA reads. The
workers and the HTTP handlers of the sample service share one Redis queue, whose
length KEDA reads as well. The frontend pods share the waiting room's Redis keys.
The ledger writer asks the balance reader for a balance; the balance reader and
the history poll the table the writer inserts into.

What is hard in them is concurrency over shared keys without locks (queue,
waiting room, ledger), state that is stale when it is used (recommendations,
balances, completed markers, forecasts), partial failure between two commands,
and restarts that lose memory (registry, caches). `PROJECT.json` lists each of
these hazards at its line.

## 2. The modules

| Modules | Component | Proofs | Section |
|---|---|---|---|
| `QueueService`, `JobQueue`, `AtLeastOnce`, `JobQueueRefinement` | job queue | `JobQueueProofs` | 3 |
| `WaitingRoom` | waiting room | `WaitingRoomProofs` | 4 |
| `ApplyWorkflow`, `ApprovalLoop` (extends it) | analysis service, gateway, workflow | `ApprovalProofs` | 5 |
| `PolicyEngine`, `Analysis` (extends it), `KrrClient`, `KrrLog` | policy engine and its inputs, FinOps clients | `FinOpsProofs` | 6 |
| `Chronos` | forecast service | `ChronosProofs` | 7 |
| `SignUp`, `Payments`, `Ledger`, `Pages` | the bank | `BankProofs` | 8 |
| `ScaleInGuard`, `RunComparison`, `RunVerdicts` (extends it) | load tests | `LoadTestProofs` | 9 |

`MC*` modules give values to constants; modules without one are run directly. `MCServices`
checks the components of sections 6, 8 and 9 in one run: they share no state, so an execution is
about one of them (`part`), and the others stay as they began. Their state spaces add up
instead of multiplying. `ServicesProofs` proves that such an execution is one of each component's own
specification (section 9), so that the theorems about the components hold in that run.

Composition: `JobQueue` composes the Redis operations of `QueueService` with the
processes that call them, and `JobQueueRefinement` maps it to the abstract `AtLeastOnce`;
`ApprovalLoop` composes finops, the gateway and Telegram with `ApplyWorkflow`;
`Analysis` feeds `PolicyEngine` and implements it (a theorem); `SignUp` and
`Payments` each compose a page with the service it calls; `Ledger` the writer's pods
with the balance reader over one table; `RunVerdicts` the collector, the script's
verdict and the comparison. Between the bank's modules the seams are nondeterministic answers:
`Payments` sees the ledger writer as something that books or refuses, `Pages` sees
the waiting room as something that lets a browser pass or not.

Worth doing next, in this order: time with values for the job queue's leases (to show that owners
never overlap when the job timeout is the shorter one), and an RPUSH that redis-py
repeats; the rollback workflows; the KRR stage of `generate_report.py`.

## 3. Job queue

### Correspondence with the code

`QueueService.tla` holds the Redis keys of one queue and one operator per atomic
command or MULTI/EXEC transaction of `queue_service.py`. `JobQueue.tla` holds the
processes. A step of the model is one command or one transaction, so two
processes interleave exactly where Redis lets them.

| Model | Code |
|---|---|
| `pending` | list `<queue>`, a sequence: RPUSH at the tail, LMOVE from the head |
| `processing`, `dead` | lists whose order nothing reads: a count per serialized job |
| `lease` | sorted set of deadlines: no member, a deadline ahead, a deadline passed |
| `completed` | ids with a completed marker |
| `accepted`, `acked`, `cleared` | history variables: ids ever enqueued, acknowledged, deleted by a reset |
| `Raw` | a serialized job, abstracted to its id and its `attempts` counter. The counter is part of the string, so a retried job is another list element and another lease member than the attempt before it |
| `pc`, `job`, `todo`, `recovering` | where a process is in `run_once()` or `dequeue()`, the job in its hands, what its recovery pass has still to look at |
| `fresh` | leases a recovery pass has just written: their deadline lies after the `now` the same pass compares with, so the pass cannot find them expired. Other deadlines come from other pods' clocks, and may have passed by this pod's clock |
| `dirty` | workers whose WATCH has been broken: every step that writes the processing list puts the other watchers there |

`BeginRecovery`, `EnsureOneLease`, `FetchStale`, `CheckStale`, `DropStale` and
`EndRecovery` are `recover_stale()`; `WatchProcessing`, `Missing`, `ExecRetry`,
`ExecConflict` are the optimistic loop of `retry_or_dead_letter()`;
`ExecReplyLost` is the case the redis client can produce there, a transaction
that was applied and whose reply never came. `Reserve` and `RecordLease` are the
two commands of `reserve()`. `Ack`, `AckError`, `ProcessFails` are the outcomes of
`run_once()`'s try block. `Crash` is the death of a process, and equally a
`RedisError` that leaves `run_once()` or a request: in both cases the local
state is gone and Redis keeps what it has. `Join`, `Reset` and the `Handlers`
processes are the HTTP endpoints.

Abstractions: the recovery interval is dropped (a worker may begin with a
recovery pass or skip it, which allows more behaviours than the code); a job
*is* poisonous or not (its requested time exceeds the job timeout); LPOS is
merged with the WATCH before it, which loses nothing because a write between the
two breaks the WATCH anyway; in `Clear` the SCAN for completed markers is merged
with the DEL, with any subset of the markers surviving. A bulk request may mix
poisonous and normal jobs, although the endpoint gives all its jobs one time.

`AtLeastOnce.tla` is what the queue promises per job: waiting, running, dead or
gone, and the number of failed deliveries. `JobQueueRefinement.tla` maps the
lists to it.

### Runs

| Run | Question | Instance and bounds |
|---|---|---|
| `queue_safe` | do the safety invariants survive faults, with jobs that share lists and recovery passes, one of them failing always? Is each job's life one that `AtLeastOnce` allows? | 2 jobs (one poisonous), 2 workers, 1 retry, batches of 2, 2 events |
| `queue_live` | does every job settle, is every orphaned lease swept? | `FairSpec`, 1 job, 2 workers, 1 handler, 1 event |
| `requeue_completed` | does recovery spare every acknowledged job, as the docstring says? | violated, see below |

`MaxEvents` bounds crashes, Redis errors, resets and expiries of markers together;
`MaxRetries = 1` makes both outcomes of `retry_or_dead_letter()` reachable;
`MaxBatch` bounds a bulk request. Two events are a crash between BLMOVE and ZADD and
a lost reply or a reset on top; two workers are the smallest number that can race, and
the two of `queue_safe` are interchangeable and declared symmetric (no liveness
property is checked under symmetry). The handler `process_queue()` takes the steps of
a worker without the recovery pass, and is left to `queue_live`.

The invariants: `NoLoss` (an accepted job is in a list until it is acknowledged
or reset), `SingleCopy` (at most one copy over the three lists),
`OneOwnerPerAttempt` (one attempt is handed out once), `ResetIsFinal` (nobody brings a
deleted job back). `ImplementsAtLeastOnce` is the refinement.

Fairness in `queue_live`: each worker keeps taking steps (`run()` loops until
SIGTERM, catches every exception, and the Deployment restarts it) and deadlines
pass. Nothing is assumed of the handler, the producers or the faults, which
stop once the bound is reached.

### Findings

* `is_completed()` (queue_service.py:128) is documented to suppress duplicate
  processing of acknowledged jobs by recovery. The marker is read before the WATCH
  and is not watched: an owner of an earlier attempt, overtaken by its visibility
  timeout, can acknowledge in between and the job is put back or buried all the
  same (`requeue_completed`). The queue stays at-least-once; a finished job can be
  executed again or end in the dead letters.
* Seen while modelling, not runs: `process_job()` (worker.py:69-70) documents that an
  over-long time is limited to 0..30 seconds, but line 81 raises, so the job is
  retried and dead-lettered; `docs/redis-queue-runbook.md:29` still describes BLPOP,
  without the processing list.

### Proofs

`JobQueueProofs.tla` proves, for every set of jobs, workers and handlers, every
retry limit and any number of events:

* `TypeCorrect`: `Spec => []TypeOK`. The strengthening `JobHeld` says that a process past
  its reservation holds a serialized job.
* `NothingLost`, `ResetFinal`, `AttemptsCorrect`: `NoLoss`, `ResetIsFinal` and
  `AttemptsBounded` (a listed job has an attempt left, a dead letter has used
  exactly its retries) are invariants.

* `OneCopy` and `OneOwner`: so are `SingleCopy` and `OneOwnerPerAttempt`.
* `Implements`: `Spec => ImplementsAtLeastOnce`, the refinement.

The argument has layers. `TypeInv` (types) and `StepInv` (a marker implies an
acknowledgement; a member found completed stays acknowledged; an unbroken WATCH
means the job is still listed) are inductive over the processes. With them every
step of the system is a step of `QueueNext`, the queue seen from Redis, in which
what the process knew when it wrote is a guard (`QueueStep`). `CustodyInv` is then
inductive over `QueueNext` alone: three of the properties, and the facts that the
lists and the reset jobs only contain accepted ids, without which a new id could
collide with an old one. So is `SingleCopy`, given `CustodyInv`: a retry puts a job back
only where it took it from. `KnownInv` (whoever holds, leases or looks for a job
has an accepted one) and `OwnerInv` go back to the processes: of a job
somebody owns the lists hold that attempt, still reserved, or a later one, which is why no
attempt can be handed out again. The refinement follows from `Inv`, the conjunction of
these: it makes the mapping a function of the only copy (`Mapped`), and each disjunct of
`QueueNext` becomes an action of `AtLeastOnce` or a stutter (`MapNext`).

The assumptions are `QueueAssumption` (the bounds are
natural numbers) and `ProcsAssumption` (workers and handlers are different
processes, and `NoJob` is no job).

Only model-checked: the liveness properties (the proof system does not reach liveness
under fairness).

## 4. Waiting room

### Correspondence with the code

`WaitingRoom.tla` models `check_waiting_status()` (frontend.py:178-232) and the
heartbeat thread `_pod_heartbeat()` (frontend.py:145-175). Nothing groups their Redis
commands, so each command is one action.

| Model | Code |
|---|---|
| `active` | keys `active:<token>` with their 60 s TTL |
| `counted` | set `active-users-set`, what SCARD returns |
| `ahead` | sorted set `bank-frontend-waiting-queue`: for each member, the members with a lower score. Its domain is the line (`Waiting`), ZRANK is the number of those ahead (`Rank`), `Zadd` and `Zrem` are the two commands that change it |
| `beat` | sorted set of heartbeats: absent, younger or older than 30 s |
| `alive` | keys of registered pods; their number times `SLOTS_PER_POD` is the capacity |
| `pc`, `free` | where each request is, and the capacity or free seats it computed earlier |
| `crossed` | history: requests under way during which another request of the same user did the ZADD or the SETEX of their token |
| `step`, `left`, `found` | where each pod's sweep is, and the tokens it has listed |
| `gone`, `Unsteady` | users who have closed the page, and those who may |

One user has several requests under way (`TokenOf`), even with one tab: the page in line polls every
2.5 seconds (templates/waiting.html:242), reloads every 5 (line 6), and waits for no answer. The
requests under way together are at most the `Threads` of gunicorn in all pods
(`--threads 4` each, app-test/frontend/Dockerfile:49). `ScanPods` is the single SCAN call of line 200, which may see any
subset of the keys (never fewer than one pod is assumed). `Fail` and `SweepFails` are
Redis errors in a request or a sweep, and equally the death of the pod.

A score is the pod's `time.time()` just before the ZADD. The model takes it at the ZADD: the
pods' clocks agree, and no ZADD overtakes one with a later time. `AdmittedFromTheFront` depends on
that: a ZADD that arrives late with an earlier time may push a user back whose rank was already read.

### Runs

| Run | Question | Instance and bounds |
|---|---|---|
| `room` | how far can the capacity be exceeded; what makes somebody be inside and in line, or be let in from the back; does everybody who keeps polling get in? | `MCSpec`, 2 users, one of whom may leave or stop polling, 1 pod, 1 seat, 2 threads, and one error, pod failure, or reload of the second user's page that overlaps its poll |
| `room_ghost` | are tokens without heartbeat cleaned from the line, as the comment says? | violated |

Two users and one seat are the smallest instance in which a check races an admission,
and the sweep races both; a heartbeat may lapse and a user leave. One event allows a failure between
any two commands of an admission or of the sweep; `MaxEvents` also bounds the expiry of a pod's key and,
in `MCWaitingRoom`, the reloads. The two threads let the requests of two users overlap, or a poll and a
reload of one. After a reload nobody leaves or falls silent in the run, which keeps it small (0.7 million states);
the theorems have no such bound. `room_ghost` has `MaxEvents = 0`, it needs no failure.

`OvershootBounded` bounds the counted users. `SeatOrPlace` and `AdmittedFromTheFront` are action
properties: a user comes to be inside and in line at once, or leaves the line from further back than the
capacity, only by a request that another one of the same user has crossed. Failures, sweeps, sessions
that end and other users' requests never cause it. Without the exception both would be wrong of one open tab (see
the findings).

Fairness in `room` (`Fairness`): pages poll every 2.5 s while open (templates/waiting.html) and
threads complete what they began; a user whose page is open gets a thread again and again; the heartbeat loop never ends (it catches every
exception); a session whose user is done expires. `BeatLapses` is fair only for users who
have left: a page that polls may be late, but need not be. `EveryPollerEnters` makes one exception, a
token in line whose user has left and which no heartbeat leads the sweep to (`Ghost`): the defect of
`room_ghost` blocks the line for good. A token that is a ghost only between two commands, until its
heartbeat is written, meets the exception too.

### Findings

* frontend.py:161 says that tokens without a heartbeat for 30 seconds are cleaned from the
  line. The sweep issues two ZREMs, one on the line (165) and one on the heartbeats
  (166). A user who comes back between them is enqueued with a fresh heartbeat that the
  second ZREM deletes; when that user leaves, no sweep finds the token any more and
  newcomers are never admitted past it (`room_ghost`).
* Divergences that are not runs of their own: concurrent requests exceed the capacity that
  frontend.py:106 announces (`OvershootBounded` states by how much); a sweep that found a
  session expired removes a user who has been readmitted meanwhile from the count (157),
  against the comments at 154 and 204; SCAN is called once and its cursor dropped (200), so
  pods can be overlooked. Users who are inside without being counted, by that sweep or by a failure
  between SETEX and SADD (214, 224), are not limited by anything, and no property says they are.
* The poll and the reload of one page overlap, as nothing keeps them apart. If the reload finds no session, the poll
  then takes the seat (212-215) and the reload goes on, it finds no rank, a full room, and enqueues the
  user who is inside (229): the place in line blocks others until its heartbeat lapses. If the poll has read
  a good rank and is delayed, another request may have taken the token from the line, and a third one put it back at the
  tail, where the delayed ZREM admits it from (212).

### Proofs

`WaitingRoomProofs.tla` proves all safety properties of the run for any users, pods and slots:

* `Typed`: `Spec => []TypeOK`. `TypeInv` has its parts by the steps that touch them. The line stays a
  strict total order (`LineOK`) under `Zadd` and `Zrem`, and the free seats a request computes lie between minus
  the number of all users and the full capacity.
* `OvershootLimited`: users counted plus requests permitted to enter never
  exceed the full capacity by more than the number of threads minus one. That the counted users alone are
  bounded is not inductive: a request that read the count earlier enters on a stale number. Adding the
  requests permitted to enter (`Permitted`) makes it so. A request becomes permitted only when it
  reads a count below the capacity, and then the counted users are below the capacity and the permitted
  requests are at most as many as there are threads (`ThreadsSuffice`, `CountActiveKeepsSeats`); entering moves one from the second number
  to the first (`CountInKeepsSeats`); no other step increases the sum (`NoNewSeat`). `SeatInv` joins
  this with what a request knows of the capacity.
* `InsideOrInLine` (`SeatOrPlace`) and `OnlyTheFrontIsAdmitted` (`AdmittedFromTheFront`), for any number of
  overlapping requests. Only a user's own requests put their token into the active set or the
  line, so what a request found is still so when it acts, unless another one has crossed it. `TurnInv` says this of
  the requests that are not in `crossed`: past its EXISTS such a request has no
  session until its own SETEX, and after the ZREM the token is out of the line, and one about
  to leave the line has a rank below the capacity, or is not in line any more. This is kept because a ZADD by
  others goes to the tail and a ZREM only shortens what is ahead.

Only liveness is left to TLC (`EveryPollerEnters`).

## 5. Approval loop

### Correspondence with the code

`ApprovalLoop.tla` (extending `ApplyWorkflow.tla`) follows a recommendation from its
computation to the GitOps repository.

| Model | Code |
|---|---|
| `cache`, `version` | `_last_recommendations` (finops/app/main.py:77); a recommendation is the number of the computation that made it and its verdict |
| `todo`, `results`, `posting` | `/analyze`, `/analyze/namespace`, `/analyze/batch` in progress; `posting`: the event loop of finops is stopped inside `_send_combined_report()`, whose `requests.post` is synchronous |
| `arrived`, `cards`, `registry` | reports received by the gateway, messages in the chat, `_batch_approval_registry` in its memory (alarm/main.py:158) |
| `clicks`, `offset`, `fetched`, `confirmed` | Telegram's updates, the poller's offset and its current list, and what a later `getUpdates` has confirmed |
| `inbox`, `serving` | requests waiting for the gateway's event loop, and where the approve-all handler is; the handler makes synchronous calls, so it serves one request at a time |
| `git`, `run`, `queued` | value of each workload in the GitOps branch; the running and the pending run of its concurrency group |
| `base`, `current` of a run | value of the workload in the commit that was checked out, and whether that commit is still the head |
| `dispatches`, `rejected`, `last`, `outcome` | history |

Value 0 is the fallback 298m/100Mi of `telegram_callback_webhook()` (alarm/main.py:588-590), taken
when finops answers 404 or 409 (`Fetch`) or not at all (`FetchTimesOut`, which needs no fault
while finops is posting). The chart may hold that value from the beginning. `PostTimesOut` is
the 30 s timeout of the poller, which then fetches the same click again while the first
is still being handled. `Dispatch` replaces the pending run of the group, as GitHub does;
`Push` and `Rebase` are the loop of finops-apply.yaml:174-185, `RunFails` any other failing step,
pushes of other workflows to the branch included.

### Runs

| Run | Question | Instance and bounds |
|---|---|---|
| `approval_safe` | is a card applied at most once, never after a rejection and never with something older; does the last push win; is every click answered? | `FairSpec`, 2 workloads, 1 analyst, 2 computations, 2 clicks, inbox of 2, 2 push attempts, 1 event |
| `approval_fallback` | does a click apply the last computed recommendation? | violated without any fault |
| `workflow_order` | are dispatches of a workload processed in order? | violated |

`MaxEvents` bounds failed calls, restarts, expired entries and failed runs together;
`MaxVersion` the computations; `MaxClicks` and `MaxPosts` the clicks and the handed-over requests.
Two computations can be one card with two workloads, or two cards of one workload of which the
first is outdated; two clicks are approve and reject of one card, approve twice, or one for
each card; with two requests a redelivered click follows the one in progress. The
runs say `CHECK_DEADLOCK FALSE` because the system legitimately rests when nobody analyses or
clicks any more.

### What is proved

`ApprovalProofs.tla` proves `TypeOK`, `OneDispatchPerCard`, `RejectedStaysRejected`, `NeverOlderThanShown` and
`LastPushWins` for any workloads, analysts and bounds, from one inductive invariant,
`LoopInv`. The properties are not inductive: that a card was not dispatched twice says nothing of
the next dispatch. `LoopInv` adds

* `CardsInv`: the registry, the rejected cards and the cards with dispatches are disjoint;
* `ServingInv`: the card in service has left the registry, and nothing was dispatched of the workloads
  it has still to do, the one on its way included;
* `PollInv`: only the last request of the inbox is waited for, and it is for the update at `offset`, so that an
  answer to a request the poller has given up moves no offset;
* `FinInv` (`Covered`): no report, under way or on a card, is ahead of the cache, unless the cache has lost the
  workload, when a click falls back;
* `WorkInv` (`GroupSound`): the pending run of a group has the last dispatch's value, or the running one if none is pending.

The invariant was also model-checked on the instance of `approval_safe`. Liveness and the two violated
properties stay with TLC.

Fairness: `PollerStep` and `HandlerStep`. The polling thread loops for ever and the event loop
finishes what it serves, because each of its calls has a timeout; nothing is assumed
of operators, analyses, GitHub or of finops (a hung finops is a `FetchTimesOut`).

### Findings

* `LatestPassIsApplied` (`approval_fallback`): finops/app/main.py:348-350 says that a click takes the last
  computed recommendation. finops posts its report with a blocking call from a coroutine
  (338), and the gateway's handler asks finops with a blocking call (alarm/main.py:239). When an
  analysis reports while an approval is handled, each waits for the other until a
  timeout, and the gateway dispatches the fallback although a PASS result is cached.
* `LastDispatchWins` (`workflow_order`): finops-apply.yaml:48 says repeated triggers of one workload are processed
  in order. `actions/checkout` gets no ref (60), so a run that had to wait works on the commit of
  its dispatch: either it sees no change and reports success while the branch holds the older
  value, or its rebase conflicts and it fails. `LastPushWins` is what does hold.
* Not a run: for a 404 or 409 the handler's comment announces the fallback, while finops/app/main.py:363 says
  that such a workload is not a candidate for deployment. Approving a card whose workload has
  failed since applies 298m/100Mi.

Not modelled here: the single-workload buttons (nothing in the repository posts their card,
`/webhook/deploy-request`), the rollback menu and workflows, the wait for ArgoCD after a push.

## 6. Policy engine and FinOps clients

### Policy engine

`PolicyEngine.tla` is `evaluate_optimization()` (finops/app/engine.py:94-333): one action per rule in the
code's order, then the verdict and the cap by limits. `Requests` are the arguments `_run_analysis()`
can pass. Requested resources are natural numbers and the values being computed are hundredths
of them, so that 70, 60 and 85 percent are exact; the code uses floating point, whose rounding
is ignored, as are the parsing and formatting of resource strings.

The run `services` checks all combinations of values on both sides of every threshold: CPU
cuts of none, exactly half, everything and increases (0, 50, 100), memory cuts of exactly 60
percent (40, 100), nine and ten restarts, loads of 19, 20, 79 and 80 percent or unknown, limits
absent, below or at the request, OOM, missing data, and no metrics at all. There
is no concurrency, and the run stops when the call returns.

`WithheldIsKept` and `CutIsBounded` are about the order of the rules, of which each may overwrite
what another has set; `TwoAlarmsFail` and `BlindFails` about the points, the bonus with its
floor at zero and the threshold. All name the limit, because the limits come from a scan up to five
minutes old and can be below the current request.

`FinOpsProofs.tla` proves the type invariant and all four properties for every set of
resources, restart counts and percentages of natural numbers (`PolicyAssumption`). The induction runs over
the rules: `ScoreInv` gives the score before each rule in closed form (the sums `Sum1` to `Sum7`
of the points of the rules so far), `FloorInv` the values that may still be below the floor
before rule 5 and after it, `RequestInv` what is known of the arguments.

Divergences that are not runs: comments of rules 3 and 4 speak of a failure after an OOM kill or
restarts, but alone they give 60 or 50 points and the verdict passes (with unchanged values);
`format_cpu()` (65) rounds to 10m above one core after RULE_08 has capped, so the formatted request
can exceed a limit that is no multiple of 10m, which the comment at 300-304 rules out; `parse_memory()`
takes the decimal units M and G for Mi and Gi although its docstring distinguishes them.

### What the engine is given

`Analysis.tla` extends the engine with `_run_analysis()` (finops/app/main.py:140-230) and the
clients' parsing: KRR's row, with "?" and absent values as `Unknown`, the request from
Prometheus or, when one of its two queries has no answer, from KRR, the metrics with their
defaults, and a recommendation KRR could not make replaced by the current value. There is no
await between KRR's answer and the verdict, so all this is the first step. `Answers` has every
way an answer can be missing, NaN included, which raises in `int()` and makes the metrics `None`.

`AnalysisImplementsPolicy` (`FinOpsProofs.tla`) proves that every execution of `Analysis` is one
of `PolicyEngine`, so the engine's theorems hold of real analyses; `AnalysisTyped` adds the types of the
answers. Both assume 0 among the CPU and memory values, which a request that is not set stands for.

Finding `SilenceFails` (`analysis_blind`): the margins of rules 3 and 4, for a history that could not be
collected, are not applied when Prometheus answers nothing. `_query_prometheus()` turns every failure
into `None`, and `get_workload_metrics()` keeps its defaults, no kills and no restarts, as if they had
been measured.

### The KRR scan cache

`KrrClient.tla` is `get_recommendation()` with `_krr_cache`: a request is served from the cache or starts
a scan; a scan ends, fails or is killed at its timeout. A result is abstracted to the moment its scan
began. Two requests that miss the cache both scan, and the one that ends last overwrites. What the
entry's time stamp is taken for (`AnswersAreFresh`): no answer is older than the TTL, whichever scan
was stored last. The instance has two requests, one key, a TTL of 3 and a timeout of 1 unit in 6
units of time, so that an entry is filled, expires, and is filled again while a slower scan is under
way. `AnswersFresh` proves it for any requests, keys and times from `ScanInv` (a stamp is the begin
of the scan it belongs to).

### The log table

`KrrLog.tla` is `KrrDbClient.save_log()`: connect, `_ensure_schema()`, INSERT, commit, each failing
or losing its answer, and processes that restart. PostgreSQL's part is external: DDL is rolled
back with its transaction, and statements wait for an uncommitted ALTER. The flag `_schema_ensured`
is set before the commit (clients.py:579) and stays set after a rollback, so that a process may go on
without the columns and every INSERT of it fails. `EnsuredOrSpoiled` says that this is the only
way, `ReportedIsStored` that True is answered for stored rows only. Two processes are an old and a new pod in a
rollout; `MaxRows = 3` and `MaxTrouble = 2` leave room for a rolled back ALTER and a row by each process
afterwards. Both are proved (`SchemaEnsured`, `ReportedStored`, from `SchemaInv`), and so are the types
(`LogTyped`; `KrrTyped` for the cache).

## 7. Chronos

`Chronos.tla` models `ForecastRuntime` (chronos/app.py). Each critical section of its lock is one action.
What happens outside the lock is an action of its own: `_refresh_expiry_for()` reads the clock before it
takes the lock (`ReadClock`, `Refresh`), `GET /metrics` refreshes target after target and then collects
gauge after gauge without the lock (`CollectScaling`, `CollectValid`), `/predict` refreshes and takes the
lock a second time (`Predict`). A gauge is read at once, so it makes no difference to what one gauge
shows that the critical section which writes several of them is one step here.

| Model | Code |
|---|---|
| `latest`, `valid` | `RuntimeState` of each target |
| `scaling`, `usable` | gauges `chronos_scaling_replicas` and `chronos_forecast_valid`, which KEDA's query multiplies |
| `loop`, `left` | the forecast thread: sleeping until, choosing a target, forecasting one since |
| `request` | each HTTP thread: what it still has to refresh, and the time it read |
| `fresh` | history: targets valid and within the TTL when the request arrived, or stored since |

A forecast is stamped when it starts (chronos_prometheus.py:299) and takes any time: the
query has a timeout, but the first one loads the model. Its demand is any number, clamped to the
configured replicas. The mode is the same for all targets (`parse_targets_from_environment()` copies
it) and changes only with a restart. The order in which a round forecasts, and a scrape
refreshes, the targets is left open.

`chronos_service` runs two targets and two concurrent requests of any kind, a clock of two units with
a TTL and an interval of one (a forecast can expire before and after it is stored, and while a
request is under way), demands below, within and above the limits, one restart. The
clock is bounded, so the model stops (`CHECK_DEADLOCK FALSE`); no liveness is stated.

`ChronosProofs.tla` proves `TypeOK`, `GaugesFollowState` and `OnlyFreshIsServed` for any targets, threads and
settings that `ForecastSettings.validate()` accepts (`SettingsAssumption`). `OnlyFreshIsServed` follows from
`StaleInv`: a valid forecast that a request must not show has expired, also
by the clock the request has read, and the request has still to refresh that target. The heart is
`RefreshKeepsInv`: the refresh then finds it expired and withdraws it, and only a new
forecast, which the request may show, makes the target valid again.

The exception "or stored since" is needed: a forecast that took longer than its TTL is stored as
valid, and a scrape that has already refreshed exports it, against chronos/README.md:39. KEDA's query
(CHRONOS_RECORDING_GUIDE.md) also checks the time stamp and catches that case.

## 8. The bank

One browser, form or account at a time, each with all the concurrency it can meet.

| Module | Code | One step |
|---|---|---|
| `SignUp` | `signup()`, `_login_helper()` of the frontend; `create_user()`, `login()` and the table's keys (userservice.py, db.py, the schema) | a statement on the users table, a post or an answer |
| `Payments` | `payment()`, `deposit()`, `_add_contact()`; `add_contact()` and `_check_contact_allowed()` (contacts.py) | a statement on the contacts table, a post or an answer |
| `Ledger` | `LedgerWriterController`, `BalanceCache`, `LedgerReader`, `BalanceReaderController` | duplicate check, balance check, insertion, commit, remembering the id; load, poll, processing one row |
| `Pages` | the routes of `frontend.py` and the waiting page | one request, or a click |

In the first three a page that has waited `BACKEND_TIMEOUT` shows a failure while its service
call goes on, and a statement may be executed although its answer is lost.

`SignUp`: the existence check, the choice of the account number and the insertion are separate
statements, so two forms can pass the check together. `AccountPerName` says that the sessions
which come of it still respect the table's keys: one name is one account and one password.
A password is abstracted to whoever knows it. `CreatedIsOwn`, on which it rests, is proved.

`Payments`: the contacts table has no key that forbids duplicates. `DuplicatesNeedOverlap` says what
holds all the same: they come only of calls that ran at the same time. `before` is a history
variable that records which calls were over. `BookedAfterContact` relates the three services: no
payment is booked whose new contact was not stored, no page reports success for one that was
not booked. A contact is found again on the home page by its account number only; that mapping is
display and not modelled.

`Ledger`: rows get their id at the insertion and become visible at the commit. The poll thread
skips ids below the highest one it has processed, and the loading cache may count a row that the poll
brings again. `ExactWhenCaughtUp` enumerates the ways the cached balance can go wrong: when
everything has been polled, it is the table's unless one of three coincidences (`drifted`)
has happened (the start from the beginning is one of the first kind). `OverdrawnOnlyByRace` says that nothing else overdraws an account: only a payment
that was checked while an earlier one had not reached the cached balance (`raced`), or a drift.
`AcknowledgedOnce` is what the request-id cache of one pod really gives: an id it has acknowledged is
not booked again by a call that begins while the pod remembers it. `Forget` is the end of the hour for which it does
(LedgerWriterController.java:96-99), or of the pod: a form left open and submitted again later is booked
again, as are overlapping calls, calls after a lost answer, and calls to another pod. A balance
reader that cannot reach the database when it starts polls the table from its beginning
(`ReaderRestarts`, `ProcessOlder`), and counts the older rows twice in a balance it has loaded. One account is modelled, since the
cache treats accounts separately, and one writer pod in the run, since ids are per pod. A table
that loses rows stops the poll thread; that and evictions are not modelled. The transaction
history polls with the same class.

`Pages`: the cookies, the seat in the waiting room and the OAuth parameters of a request decide
between a page and a redirect. The waiting room lets the browser pass or not (section 4 is about how),
a seat ends only while a page is shown. `RedirectsEnd`: no combination of a lost token, a lost seat and
an OAuth flow sends the browser around in a circle; four redirects are the most there are.
Finding `TurnReachesTarget` (`lost_form`): a form submitted when the seat has ended is dropped and its
path is asked for by GET, which has no handler. Seen while modelling, not a run:
`consent_page()` redirects to the login without a client id, so a registered OAuth flow whose token has
ended is lost.

Instance: two forms, names, passwords and account numbers; two tabs, two labels and two targets, one
the user's own account; two ledger calls with two ids, amounts up to 2 and an opening balance of 2,
so that both payments are covered alone and not together. Two are enough for the races, each
of which is between two actors.

`BankProofs.tla` proves every invariant of these four modules, for any number of forms, tabs, calls, pods, amounts:

* `CreatedIsOwn`, `AccountPerName`, `DuplicatesNeedOverlap`, `BookedAfterContact` and `AcknowledgedOnce`, each from
  an invariant about what the steps between the statements know (`AccountInv`, `PaymentInv`, `UuidInv`).
* `RedirectsEnd` (`NoRedirectLoop`). The number of hops alone is not inductive. `MostHops` gives the
  redirects that can still follow a request of a browser with a seat, and `HopsInv` says that the hops so far plus
  these are at most four; a browser without a seat has not been redirected by a page yet, and one at
  the waiting page not more than once. Losing the token between two redirects never increases the measure.
* `ExactWhenCaughtUp` (`CaughtUpExact`). `IdInv`: ids are distinct, the poll's `latest` is the id of a
  row, or not above the older ones, what it has still to process lies above. `CacheInv`: unless the cache has drifted, it is the sum of the
  rows that will not be polled again (`Reflected`, the rows without `Pending`), joined with those a load
  has seen; and a load in progress has seen every row that will not be brought to it.
* `OverdrawnOnlyByRace` (`OverdraftNeedsRace`). `FundsInv`: without a race at most one payment is
  between its balance check and its commit (`Reserves`), and the rows cover it.
* The types of all four (`SignUpTyped`, `PaymentsTyped`, `PagesTyped`, `LedgerTyped`).

A balance is a sum over a set (`MapThenSumSet`), which is a recursion that takes out some element. The
proofs need that a sum is that of the rest plus any element (`SumOverRemove`), grows with the set when
the amounts do not lower it (`SumOverGrows`), and that a bounded set of ids has a largest
(`MaxOfBounded`). These are inductions. The library states induction for an operator parameter, which cannot
be instantiated here; `AllNumbers` states it for a set of numbers, from the well-foundedness of < on
the naturals, and the sums are counted by cardinality. No finiteness of `Calls` is assumed: that
finitely many rows have been committed is part of `IdInv`.

## 9. Load tests

`ScaleInGuard.tla` is `scripts/run-bank-krr-test.sh`: preflight, `enable_scale_in_guard()` object by object
(the value read goes into the state file before it is overwritten), the Job, the collection,
and `restore_scale_in_guard()` from the EXIT trap, wherever the script stops. Two scripts may run: only
the check for an active Job keeps them apart, and there is none from preflight until the Job is
applied. Then the second saves "true" as the original; a SIGKILL, too, leaves scale-in paused.
`RestoredExactly` and `PausedWhileTesting` say what holds without these two (`met`, `faults`). They are
proved for any number of scripts and objects (`LoadTestProofs.tla`): of the objects, those below `next` are paused, those that were not
saved or have been restored are as before (`PausedInv`, `SavedInv`), and scripts that have not met are not inside
together (`AloneInv`). `GuardTyped` holds met or not: a script's place and the length of its state file belong
together (`PlaceOK`), so no loop passes the last object. `BANK_SCALE_IN_GUARD=0`, which leaves the guard out,
is not modelled; an annotation that is present and empty is read as unset, and removed by the restore. Instance: two scripts, two objects, one fault, every combination of annotations
before.

`RunComparison.tla` has the pure functions from measurements to verdicts: `collect_workload()`, the
script's `evaluate_run()` and `compare()`. How much of a container's run Prometheus has samples of is its
view (`Views`): for kube-state-metrics and for cAdvisor all of it, some, or none. A range query
averages the samples there are and answers nothing if there are none, the two counters answer 0
then. Seen in part, a container may look like any other (`part`). Queries may also raise, those about a container or those
about the nodes, which are warnings. The criteria are written three times in the code. `RunVerdicts.tla`
runs an experiment of two phases.

`VerdictIsBacked` and `PassIsBacked`: a run or a comparison passes only if the containers
really were sound and less was really requested, as far as they were not seen in part. Samples missing for
all of a run never pass for calm, failed queries neither. Samples missing for a part are not
noticed: `metrics_complete()` asks whether there is a value, range_values (collect_bank_krr_run.py:95-101)
averages what exists, and `increase()` does not count what happened before a pod was first scraped
(171-178). Such a run may pass with containers that were throttled or restarted, and the
properties exempt it (`Backed`). `PassAgrees`: a comparison that passes never contradicts
the verdict of the run or of a container. All three, and `WindowCovers`, are proved for any
containers and numbers in `LoadTestProofs.tla`; the instance takes two containers, values on both sides
of the throttling and error thresholds, and of the troubles one exporter that is down, one container seen in
part, one whose queries raise, or a node query that raises. NaN,
percentiles and costs are not modelled.

### The run `services`

The components of sections 6, 8 and 9 in one run with 18 properties, about 3.1 million states. It says
`CHECK_DEADLOCK FALSE` because all of them come to rest: rules and verdicts end, forms are
answered, clocks and faults are bounded.

`ServicesProofs.tla` proves what this wrapper does: `RunImplementsComponents`, every execution of
`ServicesSpec` is one of the specification of each component (the policy engine's, KRR's cache's, ...,
the verdicts'), and with the type theorems of the components `TypesKept`, `ServicesSpec => []TypesOK`. It
assumes of the constants only that 0 and 40 are among the resources, the values the engine starts with
while another component is examined (`SomeRowAssumption`).

## 10. What is only model-checked, and what is not modelled

Liveness stays with TLC: the proof system does not reach liveness under fairness
(`EveryJobSettles`, `OrphanLeasesAreSwept`, `EveryPollerEnters`, `EveryClickIsAnswered`), nor the ENABLED
in it. Every invariant and every action property of a passing run, and the refinement of
`AtLeastOnce`, is a theorem. The bounds for model checking (`MaxEvents`, `MaxTime`, ...) are
constants like the others, and the theorems hold for any number.

Violated, each in a run of its own, are `CompletedNotRequeued`, `LatestPassIsApplied`, `LastDispatchWins`,
`GhostsAreSwept`, `SilenceFails` and `TurnReachesTarget`.

Not modelled:

* `finops/app/formatter.py`: text layout.
* `alarm/main_polling.py`: an earlier variant of the gateway's polling loop that no manifest deploys.
* `alarm/generate_report.py`: the stage of KRR in a file that one daily job reads and writes.
* the shell around Chronos: sequential, nothing is kept.
* the CPU and memory burners and the gauges of the sample service.
* `infra/`, manifests: declarative; their behaviour is that of AWS, Kubernetes and KEDA.
* `scratch/bank-of-anthos`: the upstream copy; the deployed fork is under `app-test/`.

Except in `Chronos` and `KrrClient`, time is qualitative: deadlines pass, but have no value.
`PROJECT.json` says of each partly modelled component what is left out.
