---------------------------- MODULE PolicyEngine ----------------------------
(***************************************************************************)
(* PolicyEngine.evaluate_optimization() of finops/app/engine.py: eight     *)
(* rules, applied one after the other to the values KRR recommends.  Each  *)
(* adds to a risk score, some replace the values, and the score decides    *)
(* whether the outcome is offered for approval.                            *)
(*                                                                         *)
(* Requested resources are natural numbers (millicores, MiB); the values   *)
(* being computed are hundredths of them, so that the rules' percentages   *)
(* are exact.  Formatting the outcome is not part of the model.            *)
(***************************************************************************)
EXTENDS Integers

CONSTANTS
  Cpus, Mems,    \* requests and limits, current or recommended
  Restarts,      \* restart counts
  Percents       \* averages and forecasts of the CPU load

ASSUME PolicyAssumption ==
  Cpus \subseteq Nat /\ Mems \subseteq Nat /\ Restarts \subseteq Nat /\ Percents \subseteq Nat

VARIABLES
  request,   \* the arguments of the call
  rule,      \* the rule to be applied next
  score,
  cpu, mem,  \* final_cpu and final_mem, in hundredths
  status     \* overall_status, "none" until it is decided

vars == <<request, rule, score, cpu, mem, status>>

Unknown == -1      \* a metric that could not be read
NoLimit == 0       \* a limit that is absent or could not be parsed
Verdict == 8       \* the rules are numbered as in the code, the decision and
LimitCap == 9      \* RULE_08 come after RULE_07
Done == 10

\* What _run_analysis() passes.  A recommendation KRR could not make is the
\* current value; the limits come from a scan up to five minutes old and need
\* not be those of the current requests.
Requests ==
  {r \in [cpu : Cpus, mem : Mems, krrCpu : Cpus, krrMem : Mems,
          noCpuData : BOOLEAN, noMemData : BOOLEAN,
          cpuLimit : Cpus \cup {NoLimit}, memLimit : Mems \cup {NoLimit},
          measured : BOOLEAN, oom : BOOLEAN, restarts : Restarts \cup {0},
          average : Percents \cup {Unknown}, forecast : Percents \cup {Unknown}] :
     /\ r.noCpuData => r.krrCpu = r.cpu
     /\ r.noMemData => r.krrMem = r.mem
     /\ ~r.measured => r.oom = FALSE /\ r.restarts = 0 /\ r.average = Unknown}

TypeOK ==
  /\ request \in Requests
  /\ rule \in 1..Done
  /\ score \in 0..210
  /\ cpu \in Nat /\ mem \in Nat
  /\ status \in {"none", "PASS", "FAIL"}
  /\ status = "none" <=> rule <= Verdict

Init ==
  /\ request \in Requests
  /\ rule = 1
  /\ score = 0
  /\ cpu = 100 * request.krrCpu
  /\ mem = 100 * request.krrMem
  /\ status = "none"

CurrentCpu == 100 * request.cpu
CurrentMem == 100 * request.mem

SteepCpu == request.cpu > 0 /\ 2 * (request.cpu - request.krrCpu) >= request.cpu
SteepMem == request.mem > 0 /\ 5 * (request.mem - request.krrMem) >= 3 * request.mem
Unstable == request.measured /\ request.restarts >= 10
SurgeForecast == request.forecast >= 80

Apply(n) == rule = n /\ rule' = n + 1 /\ UNCHANGED request
Adds(points) == score' = score + points
KeepValues == UNCHANGED <<cpu, mem>>
KeepCurrent == cpu' = CurrentCpu /\ mem' = CurrentMem

\* Mutant of Rule01: exactly half is not steep yet.
Rule01Above ==
  /\ Apply(1)
  /\ IF 2 * (request.cpu - request.krrCpu) > request.cpu
       THEN Adds(25) /\ cpu' = 70 * request.cpu
       ELSE Adds(0) /\ UNCHANGED cpu
  /\ UNCHANGED <<mem, status>>

\* RULE_01: a cut of half the CPU or more is limited to 30 percent.
Rule01 ==
  /\ Apply(1)
  /\ IF SteepCpu THEN Adds(25) /\ cpu' = 70 * request.cpu ELSE Adds(0) /\ UNCHANGED cpu
  /\ UNCHANGED <<mem, status>>

\* RULE_02: a cut of 60 percent of the memory or more is limited to 40 percent.
Rule02 ==
  /\ Apply(2)
  /\ IF SteepMem THEN Adds(20) /\ mem' = 60 * request.mem ELSE Adds(0) /\ UNCHANGED mem
  /\ UNCHANGED <<cpu, status>>

\* RULE_03: after an OOM kill nothing is changed.
Rule03 ==
  /\ Apply(3)
  /\ IF request.oom THEN Adds(60) /\ KeepCurrent
     ELSE Adds(IF request.measured THEN 0 ELSE 15) /\ KeepValues
  /\ UNCHANGED status

\* Mutant of Rule04: ten restarts are still tolerated.
Rule04Above ==
  /\ Apply(4)
  /\ IF request.measured /\ request.restarts > 10 THEN Adds(50) /\ KeepCurrent
     ELSE Adds(IF request.measured THEN 0 ELSE 15) /\ KeepValues
  /\ UNCHANGED status

\* RULE_04: nor after ten restarts.
Rule04 ==
  /\ Apply(4)
  /\ IF Unstable THEN Adds(50) /\ KeepCurrent
     ELSE Adds(IF request.measured THEN 0 ELSE 15) /\ KeepValues
  /\ UNCHANGED status

\* Mutant of Rule05: without a forecast 85 percent are set, not assured.
Rule05Sets ==
  /\ Apply(5)
  /\ CASE request.forecast = Unknown -> Adds(30) /\ cpu' = 85 * request.cpu
       [] SurgeForecast -> Adds(45) /\ cpu' = CurrentCpu
       [] OTHER -> Adds(0) /\ UNCHANGED cpu
  /\ UNCHANGED <<mem, status>>

\* RULE_05: no CPU cut before a surge, and at most 15 percent without a forecast.
Rule05 ==
  /\ Apply(5)
  /\ CASE request.forecast = Unknown ->
            Adds(30) /\ cpu' = IF cpu >= 85 * request.cpu THEN cpu ELSE 85 * request.cpu
       [] SurgeForecast -> Adds(45) /\ cpu' = CurrentCpu
       [] OTHER -> Adds(0) /\ UNCHANGED cpu
  /\ UNCHANGED <<mem, status>>

\* Mutant of Rule06: the bonus is subtracted without the floor at zero.
Rule06NoFloor ==
  /\ Apply(6)
  /\ IF request.average # Unknown /\ request.average < 20 /\ ~request.oom
       THEN score' = score - 15 ELSE Adds(0)
  /\ KeepValues /\ UNCHANGED status

\* RULE_06: a low average load lowers the risk, unless there was an OOM kill.
Rule06 ==
  /\ Apply(6)
  /\ IF request.average # Unknown /\ request.average < 20 /\ ~request.oom
       THEN score' = (IF score >= 15 THEN score - 15 ELSE 0) ELSE Adds(0)
  /\ KeepValues /\ UNCHANGED status

\* RULE_07: KRR had too little data for one of the values.
Rule07 ==
  /\ Apply(7)
  /\ Adds(IF request.noCpuData \/ request.noMemData THEN 10 ELSE 0)
  /\ KeepValues /\ UNCHANGED status

\* Mutant of Decide: a score of exactly 70 passes.
DecideAbove ==
  /\ Apply(Verdict)
  /\ IF score > 70 THEN status' = "FAIL" /\ KeepCurrent ELSE status' = "PASS" /\ KeepValues
  /\ UNCHANGED score

\* A high risk fails, and the current values stay.
Decide ==
  /\ Apply(Verdict)
  /\ IF score >= 70 THEN status' = "FAIL" /\ KeepCurrent ELSE status' = "PASS" /\ KeepValues
  /\ UNCHANGED score

Capped(value, limit) == IF limit # NoLimit /\ value > 100 * limit THEN 100 * limit ELSE value

\* RULE_08: Kubernetes rejects a request above its limit.
Rule08 ==
  /\ Apply(LimitCap)
  /\ cpu' = Capped(cpu, request.cpuLimit)
  /\ mem' = Capped(mem, request.memLimit)
  /\ UNCHANGED <<score, status>>

Next ==
  \/ Rule01 \/ Rule02 \/ Rule03 \/ Rule04 \/ Rule05 \/ Rule06 \/ Rule07
  \/ Decide \/ Rule08

Spec == Init /\ [][Next]_vars

-----------------------------------------------------------------------------
\* Rules are applied in sequence and each may replace what another one set:
\* after an OOM kill, ten restarts or a failing verdict the outcome is still
\* exactly what is deployed now, as far as the limits admit it.
WithheldIsKept ==
  (rule = Done /\ (request.oom \/ Unstable \/ status = "FAIL")) =>
    /\ cpu = Capped(CurrentCpu, request.cpuLimit)
    /\ mem = Capped(CurrentMem, request.memLimit)

AtLimit(value, limit) == limit # NoLimit /\ value = 100 * limit

\* Whatever KRR recommends, the outcome cuts less than half of the CPU and less
\* than 60 percent of the memory; at most 15 percent of the CPU without a
\* forecast, and nothing of it before a surge; unless the limit is lower.
CutIsBounded ==
  rule = Done =>
    /\ \/ AtLimit(cpu, request.cpuLimit)
       \/ /\ request.cpu > 0 => 2 * cpu > CurrentCpu
          /\ request.forecast = Unknown => cpu >= 85 * request.cpu
          /\ SurgeForecast => cpu = CurrentCpu
    /\ \/ AtLimit(mem, request.memLimit)
       \/ request.mem > 0 => 5 * mem > 2 * CurrentMem

Alarms == {a \in {"oom", "restarts", "surge"} :
             \/ a = "oom" /\ request.oom
             \/ a = "restarts" /\ Unstable
             \/ a = "surge" /\ SurgeForecast}

\* No bonus makes up for two alarms: any two of an OOM kill, ten restarts and
\* a forecast surge fail the verdict.
TwoAlarmsFail ==
  (status # "none" /\ \E a, b \in Alarms : a # b) => status = "FAIL"

\* Without measurements and without a forecast the engine lets nothing through
\* that a third weakness comes with: a steep cut, or a lack of data.
BlindFails ==
  (/\ status # "none"
   /\ ~request.measured /\ request.forecast = Unknown
   /\ SteepCpu \/ SteepMem \/ request.noCpuData \/ request.noMemData) => status = "FAIL"
=============================================================================
