----------------------------- MODULE MCServices -----------------------------
(***************************************************************************)
(* The components that share no state, checked in one run: an execution is *)
(* about one of them, "part", and the others stay as they began.           *)
(***************************************************************************)
EXTENDS Analysis, KrrClient, KrrLog, SignUp, Payments, Ledger, Pages, ScaleInGuard, RunVerdicts

VARIABLE part

\* What a container measured in one run: calm with the old and with the new
\* request, throttled, without a limit, and killed for its memory.
Did(millicores, limit, average, percentile, ooms) ==
  [cpu |-> millicores, mem |-> 1, replicas |-> 1, limit |-> limit,
   avg |-> average, p95 |-> percentile, oom |-> ooms, restarts |-> 0]
SomeFacts == {Did(2, 1, 4, 19, 0), Did(1, 1, 4, 19, 0), Did(1, 1, 5, 19, 0),
              Did(1, 0, 50, 50, 0), Did(1, 1, 0, 0, 1)}

\* Nothing goes wrong, or one thing: an exporter is down, a query raises, or one
\* container is seen in part.
Seen(state, usage) == [source \in {"state", "usage"} |-> IF source = "state" THEN state ELSE usage]
Suffers(views, raising, nodes) == [views |-> views, raising |-> raising, nodes |-> nodes]
SomeTroubles ==
  LET everywhere(view) == [c \in Containers |-> view]
      whole == everywhere(Seen("all", "all"))
      y == CHOOSE c \in Containers : TRUE
  IN  {Suffers(everywhere(Seen("none", "all")), {}, FALSE),
       Suffers(everywhere(Seen("all", "none")), {}, FALSE),
       Suffers([whole EXCEPT ![y] = Seen("all", "some")], {}, FALSE),
       Suffers([whole EXCEPT ![y] = Seen("some", "all")], {}, FALSE),
       Suffers(whole, {}, FALSE), Suffers(whole, {}, TRUE), Suffers(whole, {y}, FALSE)}

\* k6 reports 1000 requests, 9 or 10 of which failed.
SomeHttps ==
  {[offered |-> 1000, system |-> n, business |-> 0, dropped |-> 0,
    rps |-> 100, p95 |-> 100, p99 |-> 100, successful |-> 100] : n \in {9, 10}}

\* What a component that is not examined begins with.
SomeRow == [cpu |-> 0, mem |-> 40, recommendedCpu |-> 0, recommendedMem |-> 40,
            cpuLimit |-> NoLimit, memLimit |-> NoLimit]
NoAnswers == [cpuRequest |-> Unknown, memRequest |-> Unknown, oom |-> Unknown,
              restarts |-> Unknown, average |-> Unknown, forecast |-> Unknown]
SomeOf(S) == CHOOSE x \in S : TRUE

ASSUME SomeRowAssumption == 0 \in Cpus /\ 40 \in Mems

PolicyBegins ==
  /\ row = SomeRow /\ answers = NoAnswers
  /\ IF part = "policy" THEN Init
     ELSE /\ request = Request(row, answers)
          /\ rule = 1 /\ score = 0 /\ status = "none"
          /\ cpu = 100 * request.krrCpu /\ mem = 100 * request.krrMem

LogBegins == LogInit /\ (part = "log" \/ migrated)

SignUpBegins ==
  /\ part # "signup" =>
       form = [f \in Forms |-> [name |-> SomeOf(Names), password |-> SomeOf(Passwords)]]
  /\ SignUpInit

PaymentsBegin ==
  /\ part # "payments" => slip = [t \in Tabs |-> [label |-> NoLabel, to |-> Self]]
  /\ PaymentsInit

LedgerBegins ==
  /\ part # "ledger" =>
       transfer = [c \in Calls |-> [uuid |-> SomeOf(Uuids), pod |-> SomeOf(WriterPods),
                                    debit |-> FALSE, amount |-> 1]]
  /\ LedgerInit

PagesBegin == PagesInit /\ (part = "pages" \/ ~registered)

GuardBegins ==
  /\ part # "guard" => original = [i \in 1..Objects |-> "<unset>"]
  /\ GuardInit

ServicesInit ==
  /\ part \in {"policy", "krr", "log", "signup", "payments", "ledger", "pages", "guard", "verdicts"}
  /\ PolicyBegins
  /\ KrrInit
  /\ LogBegins
  /\ SignUpBegins
  /\ PaymentsBegin
  /\ LedgerBegins
  /\ PagesBegin
  /\ GuardBegins
  /\ VerdictsInit

parts == <<analysisVars, krrVars, logVars, signUpVars, paymentVars, ledgerVars, pageVars,
           guardVars, verdictVars>>
Finops == <<analysisVars, krrVars, logVars>>
Bank == <<signUpVars, paymentVars, ledgerVars, pageVars>>
LoadTest == <<guardVars, verdictVars>>

FinopsNext ==
  /\ UNCHANGED <<part, Bank, LoadTest>>
  /\ \/ part = "policy" /\ AnalysisNext /\ UNCHANGED <<krrVars, logVars>>
     \/ part = "krr" /\ KrrNext /\ UNCHANGED <<analysisVars, logVars>>
     \/ part = "log" /\ LogNext /\ UNCHANGED <<analysisVars, krrVars>>

BankNext ==
  /\ UNCHANGED <<part, Finops, LoadTest>>
  /\ \/ part = "signup" /\ SignUpNext /\ UNCHANGED <<paymentVars, ledgerVars, pageVars>>
     \/ part = "payments" /\ PaymentsNext /\ UNCHANGED <<signUpVars, ledgerVars, pageVars>>
     \/ part = "ledger" /\ LedgerNext /\ UNCHANGED <<signUpVars, paymentVars, pageVars>>
     \/ part = "pages" /\ PagesNext /\ UNCHANGED <<signUpVars, paymentVars, ledgerVars>>

LoadTestNext ==
  /\ UNCHANGED <<part, Finops, Bank>>
  /\ \/ part = "guard" /\ GuardNext /\ UNCHANGED verdictVars
     \/ part = "verdicts" /\ VerdictsNext /\ UNCHANGED guardVars

ServicesNext == FinopsNext \/ BankNext \/ LoadTestNext

ServicesSpec == ServicesInit /\ [][ServicesNext]_<<part, parts>>

\* The type invariants of the components.
TypesOK ==
  /\ TypeOK /\ row \in Rows /\ answers \in Answers
  /\ KrrTypeOK
  /\ LogTypeOK
  /\ SignUpTypeOK
  /\ PaymentsTypeOK
  /\ LedgerTypeOK
  /\ PagesTypeOK
  /\ GuardTypeOK
=============================================================================
