---------------------------- MODULE RunComparison ----------------------------
(***************************************************************************)
(* From the facts of a load-test run to a verdict:                         *)
(* k6/collect_bank_krr_run.py turns what k6 and Prometheus report into a   *)
(* document, scripts/run-bank-krr-test.sh judges one document and          *)
(* k6/compare_bank_krr_runs.py compares two, each with criteria of its     *)
(* own.                                                                    *)
(*                                                                         *)
(* Ratios are percentages, compared without division.  Scenario, hashes,   *)
(* images and autoscaling settings are one value, "inputs".                *)
(***************************************************************************)
EXTENDS Integers, Functions

CONSTANTS
  Containers,  \* WORKLOADS
  Absent       \* None

ASSUME ComparisonAssumption == Absent \notin Int /\ Absent \notin {"PASS", "FAIL"}

\* What can be measured of a container; avg and p95 are its throttling.
Measurements ==
  [cpu : Nat, mem : Nat, replicas : Nat, limit : Nat,
   avg : Nat, p95 : Nat, oom : Nat, restarts : Nat]

\* The criteria, in percent and counts, and the same for every container.
Calm(m) == m.limit # 0 => m.avg < 5 /\ m.p95 < 20
Unharmed(m) == m.oom = 0 /\ m.restarts = 0

\* How much of a container's run kube-state-metrics ("state") and cAdvisor
\* ("usage") have samples of: nothing while they are down or not scraped, and not
\* what happened to a pod before its first scrape.
Views == [{"state", "usage"} -> {"all", "some", "none"}]
Partly(view) == "some" \in {view["state"], view["usage"]}

\* Mutant of collect_workload: every query ends in "or vector(0)".
collect_workload_zeros(m, part, view) ==
  LET sampled(source) == IF view[source] = "all" THEN m ELSE part
      range(source, field) == IF view[source] = "none" THEN Absent ELSE sampled(source)[field]
      count(source, field) == IF view[source] = "none" THEN 0 ELSE sampled(source)[field]
  IN  [cpu |-> range("state", "cpu"), mem |-> range("state", "mem"),
       replicas |-> range("state", "replicas"), limit |-> range("state", "limit"),
       avg |-> count("usage", "avg"), p95 |-> count("usage", "p95"),
       oom |-> count("state", "oom"), restarts |-> count("state", "restarts")]

\* collect_workload(): a range query is about the samples there are, which may
\* measure something else, "part", than the whole run, and yields None if there
\* are none; the two counters end in "or vector(0)".
collect_workload(m, part, view) ==
  LET sampled(source) == IF view[source] = "all" THEN m ELSE part
      range(source, field) == IF view[source] = "none" THEN Absent ELSE sampled(source)[field]
      count(field) == IF view["state"] = "none" THEN 0 ELSE sampled("state")[field]
  IN  [cpu |-> range("state", "cpu"), mem |-> range("state", "mem"),
       replicas |-> range("state", "replicas"), limit |-> range("state", "limit"),
       avg |-> range("usage", "avg"), p95 |-> range("usage", "p95"),
       oom |-> count("oom"), restarts |-> count("restarts")]

\* What the collection of a run may suffer from: containers seen in part or not at
\* all, containers whose queries raise, and a node query that raises.
AllTroubles == [views : [Containers -> Views], raising : SUBSET Containers, nodes : BOOLEAN]

\* main(): a container whose queries raise is left out; every query that raises
\* is a warning.
collect(facts, parts, trouble, http, inputs) ==
  [workloads |-> [c \in Containers \ trouble.raising |->
                    collect_workload(facts[c], parts[c], trouble.views[c])],
   warnings |-> trouble.raising # {} \/ trouble.nodes, http |-> http, inputs |-> inputs]

Items(run) == DOMAIN run.workloads
cpu_limited(item) == item.limit \notin {Absent, 0}
Limited(run) == {c \in Items(run) : cpu_limited(run.workloads[c])}

metrics_complete(run) ==
  /\ Items(run) = Containers /\ ~run.warnings
  /\ \A c \in Containers : LET i == run.workloads[c] IN
       /\ Absent \notin {i.cpu, i.mem, i.oom, i.restarts, i.replicas}
       /\ cpu_limited(i) => Absent \notin {i.avg, i.p95}

\* load_k6_summary(): a rate exists only if requests were offered.
RateBelow(count, offered, percent) == offered > 0 /\ 100 * count < percent * offered
ErrorsRare(http) ==
  RateBelow(http.system, http.offered, 1) /\ RateBelow(http.business, http.offered, 1)

\* ratio(after, before) <= percent
Within(after, before, percent) ==
  /\ after # Absent /\ before \notin {Absent, 0}
  /\ 100 * (after - before) <= percent * before

\* Mutant of Throttled: without a limited container nothing is throttled.
ThrottledIfLimited(run) ==
  ~ \A c \in Limited(run) : LET i == run.workloads[c] IN
      Absent \notin {i.avg, i.p95} /\ i.avg < 5 /\ i.p95 < 20

\* aggregate_stability() takes the maximum over the limited containers, and no
\* maximum over none of them is stable; the counters are sums of natural numbers.
Throttled(run) ==
  ~ /\ Limited(run) # {}
    /\ \A c \in Limited(run) : LET i == run.workloads[c] IN
         Absent \notin {i.avg, i.p95} /\ i.avg < 5 /\ i.p95 < 20
Quiet(run) ==
  /\ Items(run) # {}
  /\ \A c \in Items(run) : run.workloads[c].oom = 0 /\ run.workloads[c].restarts = 0

\* request_capacity()
Measured(run) ==
  /\ Items(run) = Containers
  /\ \A c \in Containers : LET i == run.workloads[c] IN Absent \notin {i.cpu, i.mem, i.replicas}
Total(sizes) == FoldFunction(+, 0, sizes)
CpuCapacity(workloads) == Total([c \in Containers |-> workloads[c].cpu * workloads[c].replicas])
MemCapacity(workloads) == Total([c \in Containers |-> workloads[c].mem * workloads[c].replicas])
Smaller(after, before) ==
  CpuCapacity(after) < CpuCapacity(before) \/ MemCapacity(after) < MemCapacity(before)

Reduced(pre, post) ==
  /\ Measured(pre) /\ Measured(post)
  /\ Smaller(post.workloads, pre.workloads)

\* The verdict of compare().
Passes(pre, post) ==
  /\ pre.inputs = post.inputs
  /\ metrics_complete(pre) /\ metrics_complete(post)
  /\ ErrorsRare(post.http)
  /\ Within(post.http.rps, pre.http.rps, 1) /\ 100 * (pre.http.rps - post.http.rps) <= pre.http.rps
  /\ pre.http.dropped = 0 /\ post.http.dropped = 0
  /\ Within(post.http.p95, pre.http.p95, 10) /\ Within(post.http.p99, pre.http.p99, 15)
  /\ pre.http.successful \notin {Absent, 0} /\ post.http.successful # Absent
  /\ 100 * post.http.successful >= 95 * pre.http.successful
  /\ ~Throttled(post) /\ Quiet(post)
  /\ Reduced(pre, post)

\* compare()'s verdict on one container.
ContainerPasses(item) ==
  /\ cpu_limited(item) => Absent \notin {item.avg, item.p95} /\ item.avg < 5 /\ item.p95 < 20
  /\ item.oom = 0 /\ item.restarts = 0

\* evaluate_run() of the script.
evaluate_run(run) ==
  /\ metrics_complete(run)
  /\ Limited(run) # {}
  /\ ErrorsRare(run.http)
  /\ run.http.dropped = 0
  /\ ~Throttled(run) /\ Quiet(run)

\* The KRR window a document may carry: KRR looks back from its execution, so
\* both the history and the delay must match the experiment.
Near(a, b, distance) == a - b <= distance /\ b - a <= distance
WindowAccepted(start, end, history, executed, tolerance) ==
  Near(history, end - start, tolerance) /\ Near(executed, end, tolerance)
=============================================================================
