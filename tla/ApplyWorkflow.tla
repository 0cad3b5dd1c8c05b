--------------------------- MODULE ApplyWorkflow ---------------------------
(***************************************************************************)
(* .github/workflows/finops-apply.yaml: the runs that write an approved    *)
(* recommendation into the GitOps repository.                              *)
(*                                                                         *)
(* The concurrency group of a workload keeps one run in progress and one   *)
(* pending; runs of different workloads share the branch they push to.     *)
(* The repository is abstracted to the value each workload has in it.      *)
(***************************************************************************)
EXTENDS Naturals

CONSTANTS
  Workloads,   \* namespace/deployment/container with a mapped values path
  MaxVersion,  \* bound on the recommendations computed, for model checking
  PushTries    \* pushes attempted before a run gives up

ASSUME WorkflowAssumption == MaxVersion \in Nat /\ PushTries \in Nat \ {0}

VARIABLES
  git,      \* value of each workload at the head of the branch
  run,      \* run in progress in each workload's group
  queued,   \* pending run of each group
  last,     \* history: value of the last run GitHub accepted
  outcome   \* history: how the last finished run ended

workflowVars == <<git, run, queued, last, outcome>>

\* 0 is the fallback of the gateway, the other values are recommendations.
Values == 0..MaxVersion
Initial == MaxVersion + 1        \* a value no run has written
NoValue == MaxVersion + 2

\* A run works on the commit its checkout gave it: base is the workload's value
\* there, current says whether that commit is still the head of the branch.
Idle == [step |-> "none", value |-> NoValue, base |-> NoValue, current |-> FALSE, tries |-> 0]

Runs == [step : {"none", "pending", "push", "fetch"}, value : 0..NoValue, base : 0..NoValue,
         current : BOOLEAN, tries : 0..PushTries]

WorkflowTypeOK ==
  /\ git \in [Workloads -> 0..Initial]
  /\ run \in [Workloads -> Runs] /\ queued \in [Workloads -> Runs]
  /\ last \in [Workloads -> Values \cup {NoValue}]
  /\ outcome \in [Workloads -> {"none", "pushed", "unchanged", "failed"}]

\* The chart may hold anything at first, the fallback included.
WorkflowInit ==
  /\ git \in [Workloads -> {0, Initial}]
  /\ run = [w \in Workloads |-> Idle]
  /\ queued = [w \in Workloads |-> Idle]
  /\ last = [w \in Workloads |-> NoValue]
  /\ outcome = [w \in Workloads |-> "none"]

\* workflow_dispatch: a newer pending run cancels the one before it.  The run
\* will check out the commit its event names, the head at this moment.
Dispatch(w, v) ==
  /\ queued' = [queued EXCEPT ![w] = [Idle EXCEPT !.step = "pending", !.value = v,
                                                  !.base = git[w], !.current = TRUE]]
  /\ last' = [last EXCEPT ![w] = v]
  /\ UNCHANGED <<git, run, outcome>>

EndRun(w, how) ==
  /\ run' = [run EXCEPT ![w] = Idle]
  /\ outcome' = [outcome EXCEPT ![w] = how]

\* Checkout, edit, and git diff --cached: an edit without effect ends the run.
StartRun(w) ==
  /\ run[w] = Idle
  /\ queued[w] # Idle
  /\ queued' = [queued EXCEPT ![w] = Idle]
  /\ IF queued[w].base = queued[w].value
       THEN EndRun(w, "unchanged")
       ELSE /\ run' = [run EXCEPT ![w] = [queued[w] EXCEPT !.step = "push"]]
            /\ UNCHANGED outcome
  /\ UNCHANGED <<git, last>>

\* A commit that changes the branch leaves every other checkout behind.
Behind(runs, w) ==
  [u \in Workloads |-> IF runs[u] = Idle \/ git[w] = run[w].value THEN runs[u]
                       ELSE [runs[u] EXCEPT !.current = FALSE]]

\* Mutant of Push: the push is forced, over whatever others have pushed.
PushForced(w) ==
  /\ run[w].step = "push"
  /\ git' = [u \in Workloads |-> IF u = w THEN run[w].value
                                 ELSE IF run[w].current THEN git[u] ELSE Initial]
  /\ run' = [Behind(run, w) EXCEPT ![w] = Idle]
  /\ queued' = Behind(queued, w)
  /\ outcome' = [outcome EXCEPT ![w] = "pushed"]
  /\ UNCHANGED last

\* git push: accepted only on top of the branch's present head.
Push(w) ==
  /\ run[w].step = "push"
  /\ IF run[w].current
       THEN /\ git' = [git EXCEPT ![w] = run[w].value]
            /\ run' = [Behind(run, w) EXCEPT ![w] = Idle]
            /\ queued' = Behind(queued, w)
            /\ outcome' = [outcome EXCEPT ![w] = "pushed"]
       ELSE /\ run' = [run EXCEPT ![w].step = "fetch", ![w].tries = @ + 1]
            /\ UNCHANGED <<git, queued, outcome>>
  /\ UNCHANGED last

\* git fetch and rebase: a conflict if the workload's lines have been changed to
\* another value (the same change is dropped), else the next of PushTries pushes.
Rebase(w) ==
  /\ run[w].step = "fetch"
  /\ IF git[w] \notin {run[w].base, run[w].value} \/ run[w].tries = PushTries
       THEN EndRun(w, "failed")
       ELSE /\ run' = [run EXCEPT ![w].step = "push", ![w].base = git[w], ![w].current = TRUE]
            /\ UNCHANGED outcome
  /\ UNCHANGED <<git, queued, last>>

\* A step fails: runner lost, repository unreachable, path not in the chart.
RunFails(w) ==
  /\ run[w] # Idle
  /\ EndRun(w, "failed")
  /\ UNCHANGED <<git, queued, last>>

RunStep(w) == StartRun(w) \/ Push(w) \/ Rebase(w)

-----------------------------------------------------------------------------
Settled(w) == run[w] = Idle /\ queued[w] = Idle

\* When a workload's group is empty and its last run pushed, the branch holds
\* what was dispatched last: the cancelled pending runs were older, and no push
\* of another workload, rebased or not, has undone it.
LastPushWins ==
  \A w \in Workloads : (Settled(w) /\ outcome[w] = "pushed") => git[w] = last[w]

\* finops-apply.yaml:48 says that dispatches of one workload are processed in
\* order: the last one, unless its run failed, decides what the branch holds.
LastDispatchWins ==
  \A w \in Workloads :
    (Settled(w) /\ outcome[w] \in {"pushed", "unchanged"}) => git[w] = last[w]
=============================================================================
