---------------------------- MODULE ScaleInGuard ----------------------------
(***************************************************************************)
(* scripts/run-bank-krr-test.sh: a load test pauses the scale-in of the    *)
(* KEDA ScaledObjects while its Job runs and puts their annotations back   *)
(* when the script exits, by whatever way a shell's EXIT trap sees.        *)
(*                                                                         *)
(* The objects are processed in the order of SCALE_IN_GUARD_OBJECTS; the   *)
(* state file is the sequence of the values read.  Nothing but the check   *)
(* for an active Job keeps two scripts apart.                              *)
(* The guard is on, as BANK_SCALE_IN_GUARD has it by default.  "<unset>"   *)
(* is also an annotation with an empty value, which the script reads as    *)
(* unset and removes when it restores.                                     *)
(***************************************************************************)
EXTENDS Integers, Sequences, FiniteSets

CONSTANTS
  Scripts,    \* invocations of "run"
  Objects,    \* number of ScaledObjects
  MaxFaults   \* bound: kubectl calls that fail and scripts that are killed

ASSUME GuardAssumption == Objects \in Nat \ {0} /\ MaxFaults \in Nat

VARIABLES
  annotation,  \* autoscaling.keda.sh/paused-scale-in of each object
  original,    \* history: the annotations before any script ran
  step,        \* what each script is doing
  next,        \* the object its loop has come to
  saved,       \* its scale-in-guard-state.tsv
  jobs,        \* scripts whose bank-loadgen Job is active
  met,         \* history: two scripts were inside the guard together
  faults

guardVars == <<annotation, original, step, next, saved, jobs, met, faults>>

Values == {"<unset>", "true", "false"}
Guarding == {"read", "annotate", "warm", "test", "collect", "restore"}
Steps == Guarding \cup {"new", "ready", "passed", "failed", "killed"}

GuardTypeOK ==
  /\ annotation \in [1..Objects -> Values]
  /\ original \in [1..Objects -> Values]
  /\ step \in [Scripts -> Steps]
  /\ next \in [Scripts -> 1..(Objects + 1)]
  /\ saved \in [Scripts -> Seq(Values)]
  /\ jobs \subseteq Scripts
  /\ met \in BOOLEAN
  /\ faults \in 0..MaxFaults

GuardInit ==
  /\ original \in [1..Objects -> Values]
  /\ annotation = original
  /\ step = [s \in Scripts |-> "new"]
  /\ next = [s \in Scripts |-> 1]
  /\ saved = [s \in Scripts |-> <<>>]
  /\ jobs = {}
  /\ met = FALSE
  /\ faults = 0

Fault == faults < MaxFaults /\ faults' = faults + 1
Goto(s, where) == step' = [step EXCEPT ![s] = where]
Annotate(i, value) == annotation' = [annotation EXCEPT ![i] = value]

\* preflight(): a script starts only while no load generator is active.
Preflight(s) ==
  /\ step[s] = "new"
  /\ Goto(s, IF jobs = {} THEN "ready" ELSE "failed")
  /\ UNCHANGED <<annotation, original, next, saved, jobs, met, faults>>

\* enable_scale_in_guard() creates the state file and sets SCALE_IN_GUARD_ACTIVE.
EnterGuard(s) ==
  /\ step[s] = "ready"
  /\ Goto(s, "read")
  /\ met' = (met \/ \E t \in Scripts : step[t] \in Guarding)
  /\ UNCHANGED <<annotation, original, next, saved, jobs, faults>>

\* The present value goes into the state file before it is overwritten.
ReadPrevious(s) ==
  /\ step[s] = "read" /\ next[s] <= Objects
  /\ saved' = [saved EXCEPT ![s] = Append(@, annotation[next[s]])]
  /\ Goto(s, "annotate")
  /\ UNCHANGED <<annotation, original, next, jobs, met, faults>>

\* Mutant of Pause: an object that has the annotation already is left alone.
PauseUnset(s) ==
  /\ step[s] = "annotate"
  /\ annotation' = [annotation EXCEPT ![next[s]] = IF @ = "<unset>" THEN "true" ELSE @]
  /\ next' = [next EXCEPT ![s] = @ + 1]
  /\ Goto(s, "read")
  /\ UNCHANGED <<original, saved, jobs, met, faults>>

Pause(s) ==
  /\ step[s] = "annotate"
  /\ Annotate(next[s], "true")
  /\ next' = [next EXCEPT ![s] = @ + 1]
  /\ Goto(s, "read")
  /\ UNCHANGED <<original, saved, jobs, met, faults>>

\* The HPAs follow, and the workloads are scaled to the warm replicas.
GuardOn(s) ==
  /\ step[s] = "read" /\ next[s] > Objects
  /\ Goto(s, "warm")
  /\ UNCHANGED <<annotation, original, next, saved, jobs, met, faults>>

\* kubectl apply of the rendered Job.
ApplyJob(s) ==
  /\ step[s] = "warm"
  /\ jobs' = jobs \cup {s}
  /\ Goto(s, "test")
  /\ UNCHANGED <<annotation, original, next, saved, met, faults>>

\* The Job completes, fails, meets its deadline, or "stop" deletes it.
JobEnds(s) ==
  /\ s \in jobs
  /\ jobs' = jobs \ {s}
  /\ UNCHANGED <<annotation, original, step, next, saved, met, faults>>

\* wait_for_job() returns 0: the results are copied.
TestDone(s) ==
  /\ step[s] = "test" /\ s \notin jobs
  /\ Goto(s, "collect")
  /\ UNCHANGED <<annotation, original, next, saved, jobs, met, faults>>

\* Metrics and verdict are written; restore_scale_in_guard() follows.
Collected(s) ==
  /\ step[s] = "collect"
  /\ Goto(s, "restore")
  /\ next' = [next EXCEPT ![s] = 1]
  /\ UNCHANGED <<annotation, original, saved, jobs, met, faults>>

\* Mutant of Exits: without the EXIT trap a failing script leaves its guard on.
ExitsUntrapped(s) ==
  /\ step[s] \in Guarding \ {"restore"}
  /\ Goto(s, "failed")
  /\ UNCHANGED <<annotation, original, next, saved, jobs, met, faults>>

\* die, a failing command under set -e, a timeout or a signal, at any step: the
\* trap restores what the state file holds.
Exits(s) ==
  /\ step[s] \in Guarding \ {"restore"}
  /\ Goto(s, "restore")
  /\ next' = [next EXCEPT ![s] = 1]
  /\ UNCHANGED <<annotation, original, saved, jobs, met, faults>>

\* One line of the state file; a failure is only noted.
Restore(s) ==
  /\ step[s] = "restore" /\ next[s] <= Len(saved[s])
  /\ \/ Annotate(next[s], saved[s][next[s]]) /\ UNCHANGED faults
     \/ Fault /\ UNCHANGED annotation
  /\ next' = [next EXCEPT ![s] = @ + 1]
  /\ UNCHANGED <<original, step, saved, jobs, met>>

Restored(s) ==
  /\ step[s] = "restore" /\ next[s] > Len(saved[s])
  /\ \E end \in {"passed", "failed"} : Goto(s, end)
  /\ UNCHANGED <<annotation, original, next, saved, jobs, met, faults>>

\* SIGKILL or a lost machine: no trap runs.
Killed(s) ==
  /\ step[s] \in Guarding
  /\ Fault
  /\ Goto(s, "killed")
  /\ UNCHANGED <<annotation, original, next, saved, jobs, met>>

ScriptStep(s) ==
  \/ Preflight(s) \/ EnterGuard(s) \/ ReadPrevious(s) \/ Pause(s) \/ GuardOn(s)
  \/ ApplyJob(s) \/ JobEnds(s) \/ TestDone(s) \/ Collected(s)
  \/ Exits(s) \/ Restore(s) \/ Restored(s) \/ Killed(s)

GuardNext == \E s \in Scripts : ScriptStep(s)

GuardSpec == GuardInit /\ [][GuardNext]_guardVars

-----------------------------------------------------------------------------
\* As long as no two scripts meet and nothing fails, a script that has exited,
\* however far it had come, has left every annotation as it was before.
RestoredExactly ==
  (~met /\ faults = 0 /\ \A s \in Scripts : step[s] \notin Guarding) => annotation = original

\* While a script measures, scale-in is paused, unless scripts have met.
PausedWhileTesting ==
  \A s \in Scripts : (~met /\ step[s] \in {"warm", "test", "collect"}) =>
    \A i \in 1..Objects : annotation[i] = "true"
=============================================================================
