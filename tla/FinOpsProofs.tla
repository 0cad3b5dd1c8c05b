---------------------------- MODULE FinOpsProofs ----------------------------
(***************************************************************************)
(* The policy engine for any requests, limits and metrics: the induction   *)
(* is over the rules, the score is the sum of the points given so far, and *)
(* the values keep the floors the rules so far have laid.  Then what       *)
(* surrounds it: the request it is given is one it is made for, KRR's      *)
(* cache never serves an old scan, and the log's schema flag means what it *)
(* says until an ALTER is rolled back.                                     *)
(***************************************************************************)
EXTENDS Analysis, KrrClient, KrrLog, TLAPS

-----------------------------------------------------------------------------
(* The policy engine *)

RequestInv ==
  /\ request.cpu \in Nat /\ request.mem \in Nat
  /\ request.krrCpu \in Nat /\ request.krrMem \in Nat
  /\ request.cpuLimit \in Nat /\ request.memLimit \in Nat
  /\ request.measured \in BOOLEAN /\ request.oom \in BOOLEAN
  /\ request.noCpuData \in BOOLEAN /\ request.noMemData \in BOOLEAN
  /\ request.restarts \in Nat
  /\ request.average \in Int /\ request.forecast \in Int
  /\ ~request.measured => ~request.oom /\ request.average = Unknown

\* The score after each rule.
Sum1 == IF SteepCpu THEN 25 ELSE 0
Sum2 == Sum1 + (IF SteepMem THEN 20 ELSE 0)
Sum3 == Sum2 + (IF request.oom THEN 60 ELSE IF request.measured THEN 0 ELSE 15)
Sum4 == Sum3 + (IF Unstable THEN 50 ELSE IF request.measured THEN 0 ELSE 15)
Sum5 == Sum4 + (IF request.forecast = Unknown THEN 30 ELSE IF SurgeForecast THEN 45 ELSE 0)
Bonus == request.average # Unknown /\ request.average < 20 /\ ~request.oom
Sum6 == IF ~Bonus THEN Sum5 ELSE IF Sum5 >= 15 THEN Sum5 - 15 ELSE 0
Sum7 == Sum6 + (IF request.noCpuData \/ request.noMemData THEN 10 ELSE 0)

ScoreInv ==
  /\ rule = 1 => score = 0
  /\ rule = 2 => score = Sum1
  /\ rule = 3 => score = Sum2
  /\ rule = 4 => score = Sum3
  /\ rule = 5 => score = Sum4
  /\ rule = 6 => score = Sum5
  /\ rule = 7 => score = Sum6
  /\ rule >= Verdict => score = Sum7
  /\ rule > Verdict => (status = "FAIL" <=> Sum7 >= 70)

\* What the values are or exceed until RULE_08 caps them.
FloorInv ==
  rule <= LimitCap =>
    /\ rule = 1 => cpu = 100 * request.krrCpu
    /\ rule <= 2 => mem = 100 * request.krrMem
    /\ (rule > 1 /\ request.cpu > 0) => 2 * cpu > CurrentCpu
    /\ (rule > 2 /\ request.mem > 0) => 5 * mem > 2 * CurrentMem
    /\ (rule > 3 /\ request.oom) => cpu = CurrentCpu /\ mem = CurrentMem
    /\ (rule > 4 /\ Unstable) => cpu = CurrentCpu /\ mem = CurrentMem
    /\ (rule > 5 /\ request.forecast = Unknown) => cpu >= 85 * request.cpu
    /\ (rule > 5 /\ SurgeForecast) => cpu = CurrentCpu
    /\ (rule > Verdict /\ status = "FAIL") => cpu = CurrentCpu /\ mem = CurrentMem

TypeInv ==
  /\ request \in Requests
  /\ rule \in 1..Done
  /\ score \in Nat
  /\ cpu \in Nat /\ mem \in Nat
  /\ status \in {"none", "PASS", "FAIL"}
  /\ status = "none" <=> rule <= Verdict

IInv == TypeInv /\ ScoreInv /\ FloorInv /\ WithheldIsKept /\ CutIsBounded

\* What is known of the arguments of a call.
LEMMA RequestTypes == ASSUME request \in Requests PROVE RequestInv
  <1>1. /\ request.cpu \in Cpus /\ request.krrCpu \in Cpus
        /\ request.mem \in Mems /\ request.krrMem \in Mems
        /\ request.cpuLimit \in Cpus \cup {NoLimit} /\ request.memLimit \in Mems \cup {NoLimit}
        /\ request.restarts \in Restarts \cup {0}
        /\ request.average \in Percents \cup {Unknown}
        /\ request.forecast \in Percents \cup {Unknown}
    BY SMT DEF Requests
  <1>2. /\ request.measured \in BOOLEAN /\ request.oom \in BOOLEAN
        /\ request.noCpuData \in BOOLEAN /\ request.noMemData \in BOOLEAN
    BY Zenon DEF Requests
  <1>3. ~request.measured => ~request.oom /\ request.average = Unknown
    BY Zenon DEF Requests
  <1>4. /\ request.cpu \in Nat /\ request.mem \in Nat
        /\ request.krrCpu \in Nat /\ request.krrMem \in Nat
        /\ request.cpuLimit \in Nat /\ request.memLimit \in Nat
        /\ request.restarts \in Nat
        /\ request.average \in Int /\ request.forecast \in Int
    <2>1. /\ \A c \in Cpus \cup {NoLimit} : c \in Nat
          /\ \A c \in Mems \cup {NoLimit} : c \in Nat
          /\ \A c \in Restarts \cup {0} : c \in Nat
          /\ \A c \in Percents \cup {Unknown} : c \in Int
      BY PolicyAssumption DEF PolicyAssumption, Unknown, NoLimit
    <2> QED
      BY <1>1, <2>1
  <1> QED
    BY <1>2, <1>3, <1>4, Zenon DEF RequestInv

\* The sums are natural numbers and the last is at most 210.
LEMMA SumBounds ==
  ASSUME RequestInv
  PROVE  /\ Sum1 \in Nat /\ Sum2 \in Nat /\ Sum3 \in Nat /\ Sum4 \in Nat
         /\ Sum5 \in Nat /\ Sum6 \in Nat /\ Sum7 \in Nat
         /\ Sum5 <= 200 /\ Sum7 <= 210 /\ Sum1 <= 210 /\ Sum2 <= 210 /\ Sum3 <= 210
         /\ Sum4 <= 210 /\ Sum6 <= 210
  <1>1. Sum1 \in 0..25
    BY DEF Sum1
  <1>2. Sum2 \in 0..45
    BY <1>1 DEF Sum2
  <1>3. Sum3 \in 0..105
    BY <1>2 DEF Sum3
  <1>4. Sum4 \in 0..155
    BY <1>3 DEF Sum4
  <1>5. Sum5 \in 0..200
    BY <1>4 DEF Sum5
  <1>6. Sum6 \in 0..200
    BY <1>5 DEF Sum6
  <1>7. Sum7 \in 0..210
    BY <1>6 DEF Sum7
  <1> QED
    BY <1>1, <1>2, <1>3, <1>4, <1>5, <1>6, <1>7

\* The numbers the rules are compared with stay what they are.
LEMMA SameRequest ==
  ASSUME UNCHANGED request
  PROVE  /\ CurrentCpu' = CurrentCpu /\ CurrentMem' = CurrentMem
         /\ SteepCpu' = SteepCpu /\ SteepMem' = SteepMem
         /\ Unstable' = Unstable /\ SurgeForecast' = SurgeForecast
         /\ Sum1' = Sum1 /\ Sum2' = Sum2 /\ Sum3' = Sum3 /\ Sum4' = Sum4
         /\ Sum5' = Sum5 /\ Sum6' = Sum6 /\ Sum7' = Sum7
  BY DEF CurrentCpu, CurrentMem, SteepCpu, SteepMem, Unstable, SurgeForecast,
         Sum1, Sum2, Sum3, Sum4, Sum5, Sum6, Sum7, Bonus

LEMMA InvInit == Init => IInv
  <1> SUFFICES ASSUME Init PROVE IInv
    OBVIOUS
  <1>1. RequestInv
    BY RequestTypes DEF Init
  <1>2. TypeInv
    BY <1>1 DEF Init, TypeInv, RequestInv, Done, Verdict
  <1>3. ScoreInv /\ FloorInv
    BY DEF Init, ScoreInv, FloorInv, Verdict
  <1>4. WithheldIsKept /\ CutIsBounded
    BY DEF Init, WithheldIsKept, CutIsBounded, Done
  <1> QED
    BY <1>2, <1>3, <1>4 DEF IInv

\* Each rule leads from the invariant to the invariant.
LEMMA InvNext == IInv /\ [Next]_vars => IInv'
  <1> SUFFICES ASSUME IInv, [Next]_vars PROVE IInv'
    OBVIOUS
  <1> USE DEF Done, Verdict, LimitCap
  <1>0. RequestInv
    BY RequestTypes DEF IInv, TypeInv
  <1>1. CASE Rule01
    <2>1. UNCHANGED request /\ rule = 1 /\ rule' = 2 /\ UNCHANGED <<mem, status>>
      BY <1>1 DEF Rule01, Apply
    <2>2. score' = Sum1 /\ score' \in Nat /\ cpu' \in Nat
      BY <1>1, <1>0 DEF Rule01, Apply, Adds, Sum1, IInv, TypeInv, ScoreInv, RequestInv
    <2>3. request.cpu > 0 => 2 * cpu' > CurrentCpu
      BY <1>1, <1>0 DEF Rule01, Apply, SteepCpu, CurrentCpu, IInv, FloorInv, RequestInv
    <2> QED
      BY <2>1, <2>2, <2>3, SameRequest DEF IInv, TypeInv, ScoreInv, FloorInv, WithheldIsKept, CutIsBounded
  <1>2. CASE Rule02
    <2>1. UNCHANGED request /\ rule = 2 /\ rule' = 3 /\ UNCHANGED <<cpu, status>>
      BY <1>2 DEF Rule02, Apply
    <2>2. score' = Sum2 /\ score' \in Nat /\ mem' \in Nat
      BY <1>2, <1>0, SumBounds DEF Rule02, Apply, Adds, Sum2, IInv, TypeInv, ScoreInv, RequestInv
    <2>3. request.mem > 0 => 5 * mem' > 2 * CurrentMem
      BY <1>2, <1>0 DEF Rule02, Apply, SteepMem, CurrentMem, IInv, FloorInv, RequestInv
    <2> QED
      BY <2>1, <2>2, <2>3, SameRequest DEF IInv, TypeInv, ScoreInv, FloorInv, WithheldIsKept, CutIsBounded
  <1>3. CASE Rule03
    <2>1. UNCHANGED request /\ rule = 3 /\ rule' = 4 /\ UNCHANGED status
      BY <1>3 DEF Rule03, Apply
    <2>2. score' = Sum3 /\ score' \in Nat
      BY <1>3, <1>0, SumBounds DEF Rule03, Apply, Adds, Sum3, IInv, TypeInv, ScoreInv, RequestInv
    <2>3. IF request.oom THEN KeepCurrent ELSE KeepValues
      BY <1>3 DEF Rule03
    <2> QED
      BY <1>0, <2>1, <2>2, <2>3, SameRequest
      DEF IInv, TypeInv, ScoreInv, FloorInv, WithheldIsKept, CutIsBounded, KeepCurrent, KeepValues,
          CurrentCpu, CurrentMem, RequestInv
  <1>4. CASE Rule04
    <2>1. UNCHANGED request /\ rule = 4 /\ rule' = 5 /\ UNCHANGED status
      BY <1>4 DEF Rule04, Apply
    <2>2. score' = Sum4 /\ score' \in Nat
      BY <1>4, <1>0, SumBounds DEF Rule04, Apply, Adds, Sum4, IInv, TypeInv, ScoreInv, RequestInv
    <2>3. IF Unstable THEN KeepCurrent ELSE KeepValues
      BY <1>4 DEF Rule04
    <2> QED
      BY <1>0, <2>1, <2>2, <2>3, SameRequest
      DEF IInv, TypeInv, ScoreInv, FloorInv, WithheldIsKept, CutIsBounded, KeepCurrent, KeepValues,
          CurrentCpu, CurrentMem, RequestInv
  <1>5. CASE Rule05
    <2>1. UNCHANGED request /\ rule = 5 /\ rule' = 6 /\ UNCHANGED <<mem, status>>
      BY <1>5 DEF Rule05, Apply
    <2>2. score' = Sum5 /\ score' \in Nat
      BY <1>5, <1>0, SumBounds
      DEF Rule05, Apply, Adds, Sum5, SurgeForecast, Unknown, IInv, TypeInv, ScoreInv, RequestInv
    <2>3. /\ request.forecast = Unknown =>
               cpu' = IF cpu >= 85 * request.cpu THEN cpu ELSE 85 * request.cpu
          /\ SurgeForecast => cpu' = CurrentCpu
          /\ request.forecast # Unknown /\ ~SurgeForecast => cpu' = cpu
      BY <1>5, <1>0 DEF Rule05, SurgeForecast, Unknown, RequestInv
    <2>4. ~(request.forecast = Unknown /\ SurgeForecast)
      BY DEF SurgeForecast, Unknown
    <2> QED
      BY <1>0, <2>1, <2>2, <2>3, <2>4, SameRequest
      DEF IInv, TypeInv, ScoreInv, FloorInv, WithheldIsKept, CutIsBounded, CurrentCpu, CurrentMem,
          RequestInv
  <1>6. CASE Rule06
    <2>1. UNCHANGED request /\ rule = 6 /\ rule' = 7 /\ UNCHANGED <<cpu, mem, status>>
      BY <1>6 DEF Rule06, Apply, KeepValues
    <2>2. score' = Sum6 /\ score' \in Nat
      BY <1>6, <1>0, SumBounds
      DEF Rule06, Apply, Adds, Sum6, Bonus, IInv, TypeInv, ScoreInv, RequestInv
    <2> QED
      BY <2>1, <2>2, SameRequest DEF IInv, TypeInv, ScoreInv, FloorInv, WithheldIsKept, CutIsBounded
  <1>7. CASE Rule07
    <2>1. UNCHANGED request /\ rule = 7 /\ rule' = 8 /\ UNCHANGED <<cpu, mem, status>>
      BY <1>7 DEF Rule07, Apply, KeepValues
    <2>2. score' = Sum7 /\ score' \in Nat
      BY <1>7, <1>0, SumBounds DEF Rule07, Apply, Adds, Sum7, IInv, TypeInv, ScoreInv, RequestInv
    <2> QED
      BY <2>1, <2>2, SameRequest DEF IInv, TypeInv, ScoreInv, FloorInv, WithheldIsKept, CutIsBounded
  <1>8. CASE Decide
    <2>1. UNCHANGED request /\ rule = 8 /\ rule' = 9 /\ UNCHANGED score
      BY <1>8 DEF Decide, Apply
    <2>2. IF Sum7 >= 70 THEN status' = "FAIL" /\ KeepCurrent ELSE status' = "PASS" /\ KeepValues
      BY <1>8, <2>1 DEF Decide, IInv, ScoreInv
    <2> QED
      BY <1>0, <2>1, <2>2, SameRequest
      DEF IInv, TypeInv, ScoreInv, FloorInv, WithheldIsKept, CutIsBounded, KeepCurrent, KeepValues,
          CurrentCpu, CurrentMem, RequestInv
  <1>9. CASE Rule08
    <2>1. UNCHANGED request /\ rule = 9 /\ rule' = 10 /\ UNCHANGED <<score, status>>
      BY <1>9 DEF Rule08, Apply
    <2>2. cpu' = Capped(cpu, request.cpuLimit) /\ mem' = Capped(mem, request.memLimit)
      BY <1>9 DEF Rule08
    <2>3. /\ cpu' \in Nat /\ mem' \in Nat
          /\ AtLimit(cpu', request.cpuLimit) \/ cpu' = cpu
          /\ AtLimit(mem', request.memLimit) \/ mem' = mem
      BY <1>0, <2>2 DEF Capped, AtLimit, NoLimit, RequestInv, IInv, TypeInv
    <2>4. TypeInv' /\ ScoreInv' /\ FloorInv'
      BY <2>1, <2>3, SameRequest DEF IInv, TypeInv, ScoreInv, FloorInv
    <2>5. WithheldIsKept'
      BY <2>1, <2>2, SameRequest DEF IInv, FloorInv, WithheldIsKept
    <2>6. CutIsBounded'
      BY <2>1, <2>3, SameRequest DEF IInv, FloorInv, CutIsBounded
    <2> QED
      BY <2>4, <2>5, <2>6 DEF IInv
  <1>10. CASE UNCHANGED vars
    <2>1. UNCHANGED <<request, rule, score, cpu, mem, status>>
      BY <1>10 DEF vars
    <2> QED
      BY <2>1, SameRequest DEF IInv, TypeInv, ScoreInv, FloorInv, WithheldIsKept, CutIsBounded
  <1> QED
    BY <1>1, <1>2, <1>3, <1>4, <1>5, <1>6, <1>7, <1>8, <1>9, <1>10 DEF Next

LEMMA InvHolds == Spec => []IInv
  BY InvInit, InvNext, PTL DEF Spec

\* Every variable keeps its type; in particular the score, from which a bonus
\* is subtracted, never leaves 0..210.
THEOREM TypeCorrect == Spec => []TypeOK
  <1>1. IInv => TypeOK
    <2> SUFFICES ASSUME IInv PROVE TypeOK
      OBVIOUS
    <2>1. RequestInv
      BY RequestTypes DEF IInv, TypeInv
    <2>2. score \in 0..210
      BY <2>1, SumBounds DEF IInv, TypeInv, ScoreInv, Done, Verdict
    <2> QED
      BY <2>2 DEF IInv, TypeInv, TypeOK
  <1> QED
    BY <1>1, InvHolds, PTL

\* What a rule withholds stays withheld, whatever rules follow.
THEOREM WithheldStays == Spec => []WithheldIsKept
  <1>1. IInv => WithheldIsKept
    BY DEF IInv
  <1> QED
    BY <1>1, InvHolds, PTL

\* No recommendation cuts deeper than the rules allow.
THEOREM CutsBounded == Spec => []CutIsBounded
  <1>1. IInv => CutIsBounded
    BY DEF IInv
  <1> QED
    BY <1>1, InvHolds, PTL

\* Two alarms fail the verdict, whatever the other rules add or take off.
THEOREM AlarmsFail == Spec => []TwoAlarmsFail
  <1>1. IInv => TwoAlarmsFail
    <2> SUFFICES ASSUME IInv, status # "none", NEW a \in Alarms, NEW b \in Alarms, a # b
                 PROVE  status = "FAIL"
      BY DEF TwoAlarmsFail
    <2>1. RequestInv
      BY RequestTypes DEF IInv, TypeInv
    <2>2. \/ request.oom /\ Unstable
          \/ request.oom /\ SurgeForecast
          \/ Unstable /\ SurgeForecast
      BY DEF Alarms
    <2>3. Sum2 \in Nat
      BY <2>1, SumBounds
    <2>4. Sum7 >= 70
      BY <2>1, <2>2, <2>3
      DEF Sum3, Sum4, Sum5, Sum6, Sum7, Bonus, Unstable, SurgeForecast, Unknown, RequestInv
    <2> QED
      BY <2>4 DEF IInv, TypeInv, ScoreInv, Verdict, Done
  <1> QED
    BY <1>1, InvHolds, PTL

\* Blind, the engine fails what has any other weakness.
THEOREM BlindnessFails == Spec => []BlindFails
  <1>1. IInv => BlindFails
    <2> SUFFICES ASSUME IInv, status # "none", ~request.measured, request.forecast = Unknown,
                        SteepCpu \/ SteepMem \/ request.noCpuData \/ request.noMemData
                 PROVE  status = "FAIL"
      BY DEF BlindFails
    <2>1. RequestInv
      BY RequestTypes DEF IInv, TypeInv
    <2>2. ~Bonus /\ ~Unstable
      BY <2>1 DEF Bonus, Unstable, RequestInv
    <2>3. Sum7 >= 70
      BY <2>1, <2>2 DEF Sum1, Sum2, Sum3, Sum4, Sum5, Sum6, Sum7, RequestInv
    <2> QED
      BY <2>3 DEF IInv, TypeInv, ScoreInv, Verdict, Done
  <1> QED
    BY <1>1, InvHolds, PTL

-----------------------------------------------------------------------------
(* The analysis *)

LEMMA MetricsAreSome ==
  ASSUME NEW a \in Answers
  PROVE  /\ Metrics(a).measured \in BOOLEAN /\ Metrics(a).oom \in BOOLEAN
         /\ Metrics(a).restarts \in Restarts \cup {0}
         /\ Metrics(a).average \in Percents \cup {Unknown}
         /\ ~Metrics(a).measured =>
              Metrics(a).oom = FALSE /\ Metrics(a).restarts = 0 /\ Metrics(a).average = Unknown
<1>1. /\ a.restarts \in Restarts \cup {Unknown, NotANumber}
      /\ a.average \in Percents \cup {Unknown}
      /\ (a.oom > 0) \in BOOLEAN
  BY DEF Answers
<1>2. CASE a.restarts = NotANumber
  BY <1>2 DEF Metrics
<1>3. CASE a.restarts # NotANumber
  <2>1. OrElse(a.restarts, 0) \in Restarts \cup {0}
    BY <1>1, <1>3 DEF OrElse
  <2> QED BY <2>1, <1>1, <1>3 DEF Metrics
<1> QED BY <1>2, <1>3

\* With a request for nothing among the values, what KRR, Prometheus and Chronos
\* answer is always a request the policy engine is specified for.
LEMMA RequestIsAdmitted ==
  ASSUME 0 \in Cpus, 0 \in Mems, NEW r \in Rows, NEW a \in Answers
  PROVE  Request(r, a) \in Requests
<1> DEFINE spec == CurrentSpec(r, a)
           q == Request(r, a)
<1>1. /\ r.cpu \in Cpus \cup {Unknown} /\ r.mem \in Mems \cup {Unknown}
      /\ r.recommendedCpu \in Cpus \cup {Unknown} /\ r.recommendedMem \in Mems \cup {Unknown}
      /\ r.cpuLimit \in Cpus \cup {NoLimit} /\ r.memLimit \in Mems \cup {NoLimit}
  BY DEF Rows
<1>2. /\ a.cpuRequest \in Cpus \cup {Unknown} /\ a.memRequest \in Mems \cup {Unknown}
      /\ a.forecast \in Percents \cup {Unknown}
  BY DEF Answers
<1>3. spec.cpu \in Cpus /\ spec.mem \in Mems
  BY <1>1, <1>2 DEF CurrentSpec, SpecAnswered, OrElse
<1>4. /\ OrElse(r.recommendedCpu, spec.cpu) \in Cpus
      /\ OrElse(r.recommendedMem, spec.mem) \in Mems
      /\ r.recommendedCpu = Unknown => OrElse(r.recommendedCpu, spec.cpu) = spec.cpu
      /\ r.recommendedMem = Unknown => OrElse(r.recommendedMem, spec.mem) = spec.mem
  BY <1>1, <1>3 DEF OrElse
<1> HIDE DEF spec
<1>5. /\ Metrics(a).measured \in BOOLEAN /\ Metrics(a).oom \in BOOLEAN
      /\ Metrics(a).restarts \in Restarts \cup {0}
      /\ Metrics(a).average \in Percents \cup {Unknown}
      /\ ~Metrics(a).measured =>
           Metrics(a).oom = FALSE /\ Metrics(a).restarts = 0 /\ Metrics(a).average = Unknown
  BY MetricsAreSome
<1>6. q = [cpu |-> spec.cpu, mem |-> spec.mem,
           krrCpu |-> OrElse(r.recommendedCpu, spec.cpu),
           krrMem |-> OrElse(r.recommendedMem, spec.mem),
           noCpuData |-> r.recommendedCpu = Unknown, noMemData |-> r.recommendedMem = Unknown,
           cpuLimit |-> r.cpuLimit, memLimit |-> r.memLimit,
           measured |-> Metrics(a).measured, oom |-> Metrics(a).oom,
           restarts |-> Metrics(a).restarts,
           average |-> Metrics(a).average, forecast |-> a.forecast]
  BY DEF Request, spec
<1> HIDE DEF q
<1>7. q \in [cpu : Cpus, mem : Mems, krrCpu : Cpus, krrMem : Mems,
             noCpuData : BOOLEAN, noMemData : BOOLEAN,
             cpuLimit : Cpus \cup {NoLimit}, memLimit : Mems \cup {NoLimit},
             measured : BOOLEAN, oom : BOOLEAN, restarts : Restarts \cup {0},
             average : Percents \cup {Unknown}, forecast : Percents \cup {Unknown}]
  BY <1>1, <1>2, <1>3, <1>4, <1>5, <1>6
<1>8. /\ q.noCpuData => q.krrCpu = q.cpu
      /\ q.noMemData => q.krrMem = q.mem
      /\ ~q.measured => q.oom = FALSE /\ q.restarts = 0 /\ q.average = Unknown
  BY <1>4, <1>5, <1>6
<1>9. q \in Requests
  BY <1>7, <1>8 DEF Requests
<1> QED BY <1>9 DEF q

\* An analysis is an execution of the policy engine: whatever is proved of the
\* engine for all its requests holds of what _run_analysis() makes of the answers.
THEOREM AnalysisImplementsPolicy ==
  ASSUME 0 \in Cpus, 0 \in Mems
  PROVE  AnalysisSpec => Spec
<1>1. AnalysisInit => Init
  BY RequestIsAdmitted DEF AnalysisInit, Init
<1>2. [AnalysisNext]_analysisVars => [Next]_vars
  BY DEF AnalysisNext, analysisVars
<1> QED BY <1>1, <1>2, PTL DEF AnalysisSpec, Spec

-----------------------------------------------------------------------------
(* The cache of KRR's scans *)

\* An entry is stamped with the begin of its scan, and no scan is older than
\* the time it is given.
ScanInv ==
  /\ KrrTypeOK
  /\ \A k \in Keys : cache[k] # Nothing => cache[k].stamp = cache[k].scan
  /\ \A r \in Askers : scanning[r] # Nothing => now - scanning[r].began <= Timeout
  /\ AnswersAreFresh

LEMMA ScanInvStep == ScanInv /\ [KrrNext]_krrVars => ScanInv'
<1> SUFFICES ASSUME ScanInv, [KrrNext]_krrVars PROVE ScanInv'
  OBVIOUS
<1> USE KrrAssumption
<1>0. /\ now \in Times /\ Times \subseteq Nat
      /\ cache \in [Keys -> Entries \cup {Nothing}]
      /\ scanning \in [Askers -> Scans \cup {Nothing}]
      /\ answer \in [Askers -> Given \cup {Nothing}]
      /\ Timeout \in Nat /\ TTL \in Nat /\ Timeout < TTL
  BY DEF ScanInv, KrrTypeOK, Times
<1>1. ASSUME NEW r \in Askers, NEW k \in Keys, AskKrr(r, k) PROVE ScanInv'
  <2>1. UNCHANGED <<now, cache>> /\ scanning[r] = Nothing
    BY <1>1 DEF AskKrr
  <2>2. CASE Valid(k) /\ Give(r, k, cache[k].scan) /\ UNCHANGED scanning
    <3>1. cache[k] \in Entries /\ now - cache[k].scan < TTL
      BY <2>2, <1>0 DEF Valid, ScanInv
    <3>2. answer' = [answer EXCEPT ![r] = [key |-> k, scan |-> cache[k].scan, at |-> now]]
      BY <2>2 DEF Give
    <3>3. [key |-> k, scan |-> cache[k].scan, at |-> now] \in Given
      BY <3>1, <1>0 DEF Given, Entries
    <3> QED BY <2>1, <2>2, <3>1, <3>2, <3>3, <1>0 DEF ScanInv, KrrTypeOK, AnswersAreFresh
  <2>3. CASE /\ scanning' = [scanning EXCEPT ![r] = [key |-> k, began |-> now]]
             /\ answer' = [answer EXCEPT ![r] = Nothing]
    <3>1. [key |-> k, began |-> now] \in Scans
      BY <1>0 DEF Scans
    <3>2. KrrTypeOK'
      BY <2>1, <2>3, <3>1, <1>0 DEF KrrTypeOK
    <3>3. \A q \in Askers : scanning'[q] # Nothing => now' - scanning'[q].began <= Timeout
      BY <2>1, <2>3, <1>0 DEF ScanInv
    <3>4. AnswersAreFresh'
      BY <2>1, <2>3, <1>0 DEF ScanInv, AnswersAreFresh
    <3> QED BY <2>1, <3>2, <3>3, <3>4 DEF ScanInv
  <2> QED BY <1>1, <2>2, <2>3 DEF AskKrr
<1>2. ASSUME NEW r \in Askers, ScanEnds(r) PROVE ScanInv'
  <2> DEFINE s == scanning[r]
  <2>1. s \in Scans /\ now - s.began <= Timeout /\ now' = now
    BY <1>2, <1>0 DEF ScanEnds, ScanInv
  <2>2. /\ cache' = [cache EXCEPT ![s.key] = [scan |-> s.began, stamp |-> s.began]]
        /\ answer' = [answer EXCEPT ![r] = [key |-> s.key, scan |-> s.began, at |-> now]]
        /\ scanning' = [scanning EXCEPT ![r] = Nothing]
    BY <1>2 DEF ScanEnds, Stamp, Give
  <2>3. s.key \in Keys /\ s.began \in Times
    BY <2>1 DEF Scans
  <2> HIDE DEF s
  <2>4. /\ [scan |-> s.began, stamp |-> s.began] \in Entries
        /\ [key |-> s.key, scan |-> s.began, at |-> now] \in Given
        /\ now - s.began < TTL
    BY <2>1, <2>3, <1>0 DEF Entries, Given
  <2>5. KrrTypeOK'
    BY <2>1, <2>2, <2>3, <2>4, <1>0 DEF KrrTypeOK
  <2>6. \A k \in Keys : cache'[k] # Nothing => cache'[k].stamp = cache'[k].scan
    BY <2>2, <2>3, <1>0 DEF ScanInv
  <2>7. AnswersAreFresh'
    BY <2>2, <2>4, <1>0 DEF ScanInv, AnswersAreFresh
  <2>8. \A q \in Askers : scanning'[q] # Nothing => now' - scanning'[q].began <= Timeout
    BY <2>1, <2>2, <1>0 DEF ScanInv
  <2> QED BY <2>5, <2>6, <2>7, <2>8 DEF ScanInv
<1>3. ASSUME NEW r \in Askers, ScanFails(r) PROVE ScanInv'
  BY <1>3, <1>0 DEF ScanFails, ScanInv, KrrTypeOK, AnswersAreFresh
<1>4. CASE Tick
  <2>1. now' = now + 1 /\ now' \in Times /\ UNCHANGED <<cache, scanning, answer>>
    BY <1>4, <1>0 DEF Tick, Times
  <2>2. ASSUME NEW r \in Askers, scanning[r] # Nothing
        PROVE  now' - scanning[r].began <= Timeout
    <3>1. scanning[r].began \in Nat /\ now \in Nat
      BY <2>2, <1>0 DEF Scans
    <3>2. now < scanning[r].began + Timeout
      BY <1>4, <2>2 DEF Tick
    <3> QED BY <2>1, <3>1, <3>2, <1>0
  <2> QED BY <2>1, <2>2, <1>0 DEF ScanInv, KrrTypeOK, AnswersAreFresh
<1>5. CASE UNCHANGED krrVars
  BY <1>5 DEF krrVars, ScanInv, KrrTypeOK, AnswersAreFresh
<1> QED BY <1>1, <1>2, <1>3, <1>4, <1>5 DEF KrrNext

\* For any number of concurrent analyses and any times, whichever scan was stored
\* last, an answer rests on a scan that began less than the TTL ago.
THEOREM AnswersFresh == KrrSpec => []AnswersAreFresh
<1>1. KrrInit => ScanInv
  BY KrrAssumption DEF KrrInit, ScanInv, KrrTypeOK, AnswersAreFresh, Times
<1>2. ScanInv => AnswersAreFresh
  BY DEF ScanInv
<1> QED BY <1>1, <1>2, ScanInvStep, PTL DEF KrrSpec

-----------------------------------------------------------------------------
(* The log and its schema *)

\* At most one transaction holds the lock of an ALTER TABLE; whoever inserts
\* without one has found the columns.
SchemaInv ==
  /\ ensured \in [Processes -> BOOLEAN]
  /\ tx \in [Processes -> {"none", "begun", "plain", "altered", "insertedPlain", "insertedAltered"}]
  /\ spoiled \subseteq Processes
  /\ migrated \in BOOLEAN
  /\ EnsuredOrSpoiled

LEMMA SchemaInvStep == SchemaInv /\ [LogNext]_logVars => SchemaInv'
<1> SUFFICES ASSUME SchemaInv, [LogNext]_logVars PROVE SchemaInv'
  OBVIOUS
<1> USE DEF SchemaInv, EnsuredOrSpoiled, Altering, Goes
<1>1. ASSUME NEW p \in Processes, Connect(p) PROVE SchemaInv'
  BY <1>1 DEF Connect
<1>2. ASSUME NEW p \in Processes, EnsureSchema(p) PROVE SchemaInv'
  BY <1>2 DEF EnsureSchema
<1>3. ASSUME NEW p \in Processes, InsertLog(p) PROVE SchemaInv'
  BY <1>3 DEF InsertLog, RollBack
<1>4. ASSUME NEW p \in Processes, CommitLog(p) PROVE SchemaInv'
  BY <1>4 DEF CommitLog
<1>5. ASSUME NEW p \in Processes, SaveFails(p) PROVE SchemaInv'
  BY <1>5 DEF SaveFails, RollBack
<1>6. ASSUME NEW p \in Processes, ProcessRestarts(p) PROVE SchemaInv'
  BY <1>6 DEF ProcessRestarts
<1>7. CASE UNCHANGED logVars
  BY <1>7 DEF logVars
<1> QED BY <1>1, <1>2, <1>3, <1>4, <1>5, <1>6, <1>7 DEF LogNext

\* For any processes and any failures, the flag of a process whose own ALTER was
\* not rolled back means that the columns are there or in its open transaction.
THEOREM SchemaEnsured == LogSpec => []EnsuredOrSpoiled
<1>1. LogInit => SchemaInv
  BY DEF LogInit, SchemaInv, EnsuredOrSpoiled
<1>2. SchemaInv => EnsuredOrSpoiled
  BY DEF SchemaInv
<1> QED BY <1>1, <1>2, SchemaInvStep, PTL DEF LogSpec

\* save_log() answers True for stored rows only, whatever processes run and
\* whichever statements, commits and processes fail.
THEOREM ReportedStored == LogSpec => []ReportedIsStored
<1> DEFINE Counted == stored \in Nat /\ reported \in Nat /\ reported <= stored
<1>1. LogInit => Counted
  BY DEF LogInit
<1>2. Counted /\ [LogNext]_logVars => Counted'
  <2> SUFFICES ASSUME Counted, [LogNext]_logVars PROVE Counted'
    OBVIOUS
  <2>1. CASE UNCHANGED logVars
    BY <2>1 DEF logVars
  <2>2. ASSUME NEW p \in Processes, CommitLog(p) PROVE Counted'
    BY <2>2 DEF CommitLog
  <2>3. ASSUME NEW p \in Processes,
               Connect(p) \/ EnsureSchema(p) \/ InsertLog(p) \/ SaveFails(p) \/ ProcessRestarts(p)
        PROVE  Counted'
    BY <2>3 DEF Connect, EnsureSchema, InsertLog, SaveFails, ProcessRestarts
  <2> QED BY <2>1, <2>2, <2>3 DEF LogNext
<1>3. Counted => ReportedIsStored
  BY DEF ReportedIsStored
<1> QED BY <1>1, <1>2, <1>3, PTL DEF LogSpec

-----------------------------------------------------------------------------
(* The types of the analysis, of KRR's cache and of the log *)

\* What the policy engine is called with, and what the collection found, keep
\* their types.
THEOREM AnalysisTyped ==
  ASSUME 0 \in Cpus, 0 \in Mems
  PROVE  AnalysisSpec => [](TypeOK /\ row \in Rows /\ answers \in Answers)
<1> DEFINE Found == row \in Rows /\ answers \in Answers
<1>1. AnalysisInit => Found
  BY DEF AnalysisInit
<1>2. Found /\ [AnalysisNext]_analysisVars => Found'
  BY DEF AnalysisNext, analysisVars
<1>3. AnalysisSpec => []Found
  BY <1>1, <1>2, PTL DEF AnalysisSpec
<1>4. AnalysisSpec => []TypeOK
  BY AnalysisImplementsPolicy, TypeCorrect, PTL
<1> QED BY <1>3, <1>4, PTL

\* For any requests and namespaces, the clock, the cache and the answers keep their
\* types.
THEOREM KrrTyped == KrrSpec => []KrrTypeOK
<1>1. KrrInit => ScanInv
  BY KrrAssumption DEF KrrInit, ScanInv, KrrTypeOK, AnswersAreFresh, Times
<1>2. ScanInv => KrrTypeOK
  BY DEF ScanInv
<1> QED BY <1>1, <1>2, ScanInvStep, PTL DEF KrrSpec

\* For any processes, the log, its transactions and its histories keep their
\* types, and no more fails than may.
THEOREM LogTyped == LogSpec => []LogTypeOK
<1>1. LogInit => LogTypeOK
  BY LogAssumption DEF LogInit, LogTypeOK
<1>2. LogTypeOK /\ [LogNext]_logVars => LogTypeOK'
  <2> SUFFICES ASSUME LogTypeOK, [LogNext]_logVars PROVE LogTypeOK'
    OBVIOUS
  <2> USE LogAssumption DEF LogTypeOK, Goes
  <2>1. ASSUME NEW p \in Processes, Connect(p) \/ EnsureSchema(p) PROVE LogTypeOK'
    BY <2>1 DEF Connect, EnsureSchema
  <2>2. ASSUME NEW p \in Processes, InsertLog(p) PROVE LogTypeOK'
    BY <2>2 DEF InsertLog, RollBack
  <2>3. ASSUME NEW p \in Processes, CommitLog(p) PROVE LogTypeOK'
    BY <2>3 DEF CommitLog, Trouble
  <2>4. ASSUME NEW p \in Processes, SaveFails(p) PROVE LogTypeOK'
    BY <2>4 DEF SaveFails, RollBack, Trouble
  <2>5. ASSUME NEW p \in Processes, ProcessRestarts(p) PROVE LogTypeOK'
    BY <2>5 DEF ProcessRestarts, Trouble
  <2>6. CASE UNCHANGED logVars
    BY <2>6 DEF logVars
  <2> QED BY <2>1, <2>2, <2>3, <2>4, <2>5, <2>6 DEF LogNext
<1> QED BY <1>1, <1>2, PTL DEF LogSpec
=============================================================================
