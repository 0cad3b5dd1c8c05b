------------------------------ MODULE Analysis ------------------------------
(***************************************************************************)
(* _run_analysis() of finops/app/main.py up to its verdict: what KRR,      *)
(* Prometheus and Chronos answer becomes a request to PolicyEngine.        *)
(*                                                                         *)
(* The collection has no await once KRR has answered, so it is one step,   *)
(* the first; the rules follow.  Every answer may be missing.              *)
(***************************************************************************)
EXTENDS PolicyEngine

CONSTANT Counts   \* what the OOM query may count

ASSUME CountsAssumption == Counts \subseteq Nat

VARIABLES
  row,      \* KRR's row for the container
  answers   \* what Prometheus and Chronos answered

analysisVars == <<vars, row, answers>>

NotANumber == -2   \* Prometheus prints NaN, and float() reads it

\* _parse_krr_output(): "?" and absent values are unknown; Jobs, other
\* namespaces and rows without a container never become a row.
Rows ==
  [cpu : Cpus \cup {Unknown}, mem : Mems \cup {Unknown},
   recommendedCpu : Cpus \cup {Unknown}, recommendedMem : Mems \cup {Unknown},
   cpuLimit : Cpus \cup {NoLimit}, memLimit : Mems \cup {NoLimit}]

\* _query_prometheus() answers a number or nothing, whatever went wrong.
Answers ==
  [cpuRequest : Cpus \cup {Unknown}, memRequest : Mems \cup {Unknown},
   oom : Counts \cup {Unknown}, restarts : Restarts \cup {Unknown, NotANumber},
   average : Percents \cup {Unknown}, forecast : Percents \cup {Unknown}]

OrElse(value, default) == IF value = Unknown THEN default ELSE value

\* get_current_resource_spec(): both values from Prometheus, or both from KRR,
\* where a request that is not set is 0.
SpecAnswered(a) == a.cpuRequest # Unknown /\ a.memRequest # Unknown
CurrentSpec(r, a) ==
  IF SpecAnswered(a) THEN [cpu |-> a.cpuRequest, mem |-> a.memRequest]
  ELSE [cpu |-> OrElse(r.cpu, 0), mem |-> OrElse(r.mem, 0)]

\* get_workload_metrics(): a query without an answer leaves its default; only an
\* exception, as int() raises for NaN, makes the whole result None.
Metrics(a) ==
  IF a.restarts = NotANumber
    THEN [measured |-> FALSE, oom |-> FALSE, restarts |-> 0, average |-> Unknown]
    ELSE [measured |-> TRUE, oom |-> a.oom > 0, restarts |-> OrElse(a.restarts, 0),
          average |-> a.average]

\* A recommendation KRR could not make is replaced by the current value.
Request(r, a) ==
  LET spec == CurrentSpec(r, a)
      metrics == Metrics(a)
  IN  [cpu |-> spec.cpu, mem |-> spec.mem,
       krrCpu |-> OrElse(r.recommendedCpu, spec.cpu),
       krrMem |-> OrElse(r.recommendedMem, spec.mem),
       noCpuData |-> r.recommendedCpu = Unknown, noMemData |-> r.recommendedMem = Unknown,
       cpuLimit |-> r.cpuLimit, memLimit |-> r.memLimit,
       measured |-> metrics.measured, oom |-> metrics.oom, restarts |-> metrics.restarts,
       average |-> metrics.average, forecast |-> a.forecast]

AnalysisInit ==
  /\ row \in Rows
  /\ answers \in Answers
  /\ request = Request(row, answers)
  /\ rule = 1 /\ score = 0 /\ status = "none"
  /\ cpu = 100 * request.krrCpu
  /\ mem = 100 * request.krrMem

AnalysisNext == Next /\ UNCHANGED <<row, answers>>

AnalysisSpec == AnalysisInit /\ [][AnalysisNext]_analysisVars

-----------------------------------------------------------------------------
PrometheusSilent ==
  /\ ~SpecAnswered(answers)
  /\ answers.oom = Unknown /\ answers.restarts = Unknown /\ answers.average = Unknown

\* engine.py:172 adds a warning margin when the OOM history could not be
\* collected (and :199 for the restarts).  When Prometheus answers no query and
\* Chronos none either, the margins make every steep cut fail, as BlindFails
\* says of the rules.
SilenceFails ==
  (status # "none" /\ PrometheusSilent /\ request.forecast = Unknown
   /\ (SteepCpu \/ SteepMem)) => status = "FAIL"
=============================================================================
