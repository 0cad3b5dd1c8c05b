---------------------------- MODULE RunVerdicts ----------------------------
(***************************************************************************)
(* The two runs of an experiment, before and after KRR's recommendations   *)
(* were applied: what was the case, the document collected of it, the      *)
(* verdict of each run and that of their comparison.                       *)
(***************************************************************************)
EXTENDS RunComparison

CONSTANTS
  Facts,     \* what the containers may really do, a subset of Measurements
  Troubles,  \* what the collection may suffer from
  Https,     \* what k6 may report
  Inputs     \* scenarios, images and settings a run may use

ASSUME FactsAssumption == Facts \subseteq Measurements /\ Troubles \subseteq AllTroubles

VARIABLES
  truth,       \* what each container did in each run
  troubled,    \* what the collection of each run suffered from
  document,    \* collected.json of each run
  verdict,     \* its verdict.json
  comparison   \* what compare_bank_krr_runs.py printed

verdictVars == <<truth, troubled, document, verdict, comparison>>

Phases == {"pre", "post"}

VerdictsInit ==
  /\ truth = [p \in Phases |-> Absent]
  /\ troubled = [p \in Phases |-> Absent]
  /\ document = [p \in Phases |-> Absent]
  /\ verdict = [p \in Phases |-> Absent]
  /\ comparison = Absent

PassOrFail(passes) == IF passes THEN "PASS" ELSE "FAIL"

\* The end of run_phase(): what was seen in part is measured by that part.
RunEnds(p) ==
  /\ document[p] = Absent
  /\ \E facts \in [Containers -> Facts], trouble \in Troubles, http \in Https, inputs \in Inputs :
       \E part \in [{c \in Containers : Partly(trouble.views[c])} -> Facts] :
         LET parts == [c \in Containers |-> IF c \in DOMAIN part THEN part[c] ELSE facts[c]]
             run == collect(facts, parts, trouble, http, inputs)
         IN  /\ truth' = [truth EXCEPT ![p] = facts]
             /\ troubled' = [troubled EXCEPT ![p] = trouble]
             /\ document' = [document EXCEPT ![p] = run]
             /\ verdict' = [verdict EXCEPT ![p] = PassOrFail(evaluate_run(run))]
  /\ UNCHANGED comparison

\* The documents are compared whatever their own verdicts say.
CompareRuns ==
  /\ comparison = Absent
  /\ \A p \in Phases : document[p] # Absent
  /\ comparison' = PassOrFail(Passes(document["pre"], document["post"]))
  /\ UNCHANGED <<truth, troubled, document, verdict>>

VerdictsNext == CompareRuns \/ \E p \in Phases : RunEnds(p)

VerdictsSpec == VerdictsInit /\ [][VerdictsNext]_verdictVars

-----------------------------------------------------------------------------
\* What a container did in a run, as far as it was not seen in part only.
Backed(p, c) ==
  LET view == troubled[p].views[c]
  IN  /\ view["state"] # "some" => Unharmed(truth[p][c])
      /\ ~Partly(view) => Calm(truth[p][c])

\* A run passes only if its containers really were sound: an exporter that was
\* down, a container that has no samples and a query that failed never look like
\* a container that was calm.  Samples that are missing for a part of the run
\* only are not noticed: then the verdict is about the others.
VerdictIsBacked ==
  \A p \in Phases : verdict[p] = "PASS" => \A c \in Containers : Backed(p, c)

\* The comparison passes only if afterwards the containers really were sound and
\* less was really requested, with the same reservation.
PassIsBacked ==
  comparison = "PASS" =>
    /\ \A c \in Containers : Backed("post", c)
    /\ (\A p \in Phases, c \in Containers : troubled[p].views[c]["state"] # "some")
         => Smaller(truth["post"], truth["pre"])

\* The criteria are written down three times, for a run, for two runs and for
\* each container: a comparison that passes never contradicts the other two.
PassAgrees ==
  comparison = "PASS" =>
    /\ verdict["post"] = "PASS"
    /\ \A c \in Containers : ContainerPasses(document["post"].workloads[c])
=============================================================================
