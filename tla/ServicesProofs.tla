--------------------------- MODULE ServicesProofs ---------------------------
(***************************************************************************)
(* The run of the components that share no state, and their own            *)
(* specifications: every execution of the former is one of each of the     *)
(* latter, so that what is proved of a component holds in the run, and     *)
(* what the run shows is about the component.                              *)
(***************************************************************************)
EXTENDS MCServices, FinOpsProofs, BankProofs, LoadTestProofs

\* What the policy engine begins with while another component is examined.
LEMMA SomeRequest ==
  /\ SomeRow \in Rows /\ NoAnswers \in Answers
  /\ Request(SomeRow, NoAnswers) \in Requests
<1>1. SomeRow \in Rows
  BY SomeRowAssumption DEF SomeRow, Rows
<1>2. NoAnswers \in Answers
  BY DEF NoAnswers, Answers
<1>3. CurrentSpec(SomeRow, NoAnswers) = [cpu |-> 0, mem |-> 40]
  BY DEF CurrentSpec, SpecAnswered, OrElse, SomeRow, NoAnswers, Unknown
<1>4. Metrics(NoAnswers) = [measured |-> TRUE, oom |-> FALSE, restarts |-> 0, average |-> Unknown]
  <2>1. /\ NoAnswers.restarts = Unknown /\ NoAnswers.average = Unknown
        /\ Unknown # NotANumber /\ OrElse(Unknown, 0) = 0
    BY DEF NoAnswers, Unknown, NotANumber, OrElse
  <2>2. (NoAnswers.oom > 0) = FALSE
    BY DEF NoAnswers, Unknown
  <2> QED BY <2>1, <2>2 DEF Metrics
<1>5. /\ SomeRow.recommendedCpu = 0 /\ SomeRow.recommendedMem = 40
      /\ SomeRow.cpuLimit = NoLimit /\ SomeRow.memLimit = NoLimit
      /\ OrElse(0, 0) = 0 /\ OrElse(40, 40) = 40 /\ NoAnswers.forecast = Unknown
      /\ (0 = Unknown) = FALSE /\ (40 = Unknown) = FALSE
  BY DEF SomeRow, NoAnswers, OrElse, Unknown
<1> DEFINE row0 == SomeRow
           spec == CurrentSpec(row0, NoAnswers)
           metrics == Metrics(NoAnswers)
           q == Request(row0, NoAnswers)
<1>6. q = [cpu |-> spec.cpu, mem |-> spec.mem,
           krrCpu |-> OrElse(row0.recommendedCpu, spec.cpu),
           krrMem |-> OrElse(row0.recommendedMem, spec.mem),
           noCpuData |-> row0.recommendedCpu = Unknown, noMemData |-> row0.recommendedMem = Unknown,
           cpuLimit |-> row0.cpuLimit, memLimit |-> row0.memLimit,
           measured |-> metrics.measured, oom |-> metrics.oom, restarts |-> metrics.restarts,
           average |-> metrics.average, forecast |-> NoAnswers.forecast]
  BY DEF Request
<1> HIDE DEF q, row0, spec, metrics
<1>7. q = [cpu |-> 0, mem |-> 40, krrCpu |-> 0, krrMem |-> 40,
           noCpuData |-> FALSE, noMemData |-> FALSE, cpuLimit |-> NoLimit, memLimit |-> NoLimit,
           measured |-> TRUE, oom |-> FALSE, restarts |-> 0,
           average |-> Unknown, forecast |-> Unknown]
  <2>1. spec.cpu = 0 /\ spec.mem = 40
    BY <1>3 DEF spec, row0
  <2>2. /\ metrics.measured = TRUE /\ metrics.oom = FALSE
        /\ metrics.restarts = 0 /\ metrics.average = Unknown
    BY <1>4 DEF metrics
  <2>3. /\ row0.recommendedCpu = 0 /\ row0.recommendedMem = 40
        /\ row0.cpuLimit = NoLimit /\ row0.memLimit = NoLimit
    BY <1>5 DEF row0
  <2> QED BY <1>5, <1>6, <2>1, <2>2, <2>3
<1>8. q \in Requests
  BY <1>7, SomeRowAssumption DEF Requests
<1> QED BY <1>1, <1>2, <1>8 DEF q, row0

LEMMA RunBegins ==
  ASSUME ServicesInit
  PROVE  /\ Init /\ row = SomeRow /\ answers = NoAnswers
         /\ KrrInit /\ LogInit /\ SignUpInit /\ PaymentsInit /\ LedgerInit /\ PagesInit
         /\ GuardInit /\ VerdictsInit
<1>1. Init /\ row = SomeRow /\ answers = NoAnswers
  BY SomeRequest DEF ServicesInit, PolicyBegins, Init
<1> QED BY <1>1 DEF ServicesInit, LogBegins, SignUpBegins, PaymentsBegin, LedgerBegins, PagesBegin,
                    GuardBegins

LEMMA RunGoesOn ==
  ASSUME [ServicesNext]_<<part, parts>>
  PROVE  /\ [Next]_vars /\ UNCHANGED <<row, answers>>
         /\ [KrrNext]_krrVars /\ [LogNext]_logVars
         /\ [SignUpNext]_signUpVars /\ [PaymentsNext]_paymentVars
         /\ [LedgerNext]_ledgerVars /\ [PagesNext]_pageVars
         /\ [GuardNext]_guardVars /\ [VerdictsNext]_verdictVars
<1>1. CASE FinopsNext
  BY <1>1 DEF FinopsNext, AnalysisNext, analysisVars, Bank, LoadTest
<1>2. CASE BankNext
  BY <1>2 DEF BankNext, analysisVars, Finops, LoadTest
<1>3. CASE LoadTestNext
  BY <1>3 DEF LoadTestNext, analysisVars, Finops, Bank
<1>4. CASE UNCHANGED <<part, parts>>
  BY <1>4 DEF parts, analysisVars
<1> QED BY <1>1, <1>2, <1>3, <1>4 DEF ServicesNext

\* Whichever component an execution of the run is about, it is an execution of
\* every component's own specification.
THEOREM RunImplementsComponents ==
  ServicesSpec => /\ Spec /\ KrrSpec /\ LogSpec
                  /\ SignUpSpec /\ PaymentsSpec /\ LedgerSpec /\ PagesSpec
                  /\ GuardSpec /\ VerdictsSpec
BY RunBegins, RunGoesOn, PTL
   DEF ServicesSpec, Spec, KrrSpec, LogSpec, SignUpSpec, PaymentsSpec, LedgerSpec, PagesSpec,
       GuardSpec, VerdictsSpec

\* The components keep their types.
THEOREM TypesKept == ServicesSpec => []TypesOK
<1> DEFINE Found == row \in Rows /\ answers \in Answers
<1>1. ServicesInit => Found
  BY RunBegins, SomeRequest
<1>2. Found /\ [ServicesNext]_<<part, parts>> => Found'
  BY RunGoesOn
<1>3. ServicesSpec => []Found
  BY <1>1, <1>2, PTL DEF ServicesSpec
<1>4. TypeOK /\ Found /\ KrrTypeOK /\ LogTypeOK /\ SignUpTypeOK /\ PaymentsTypeOK
        /\ LedgerTypeOK /\ PagesTypeOK /\ GuardTypeOK => TypesOK
  BY DEF TypesOK
<1> QED BY <1>3, <1>4, RunImplementsComponents, TypeCorrect, KrrTyped, LogTyped, SignUpTyped,
           PaymentsTyped, LedgerTyped, PagesTyped, GuardTyped, PTL
=============================================================================
