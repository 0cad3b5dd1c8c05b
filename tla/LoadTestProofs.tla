--------------------------- MODULE LoadTestProofs ---------------------------
(***************************************************************************)
(* The load tests.  First the scale-in guard, for any number of objects    *)
(* and of scripts, as long as no two of them are inside together: scale-in *)
(* is paused while one measures, and nothing of it is left when it exits.  *)
(* Then what a passing verdict of a run, and of the comparison of two      *)
(* runs, is worth: for any containers, any measurements and whichever      *)
(* exporters and queries failed, of the containers that were not seen in   *)
(* part only.                                                              *)
(***************************************************************************)
EXTENDS ScaleInGuard, RunVerdicts, SequenceTheorems, TLAPS

\* The types, and that scripts which have not met are not inside together.
AloneInv ==
  /\ annotation \in [1..Objects -> Values]
  /\ original \in [1..Objects -> Values]
  /\ step \in [Scripts -> Steps]
  /\ next \in [Scripts -> Nat \ {0}]
  /\ saved \in [Scripts -> Seq(Values)]
  /\ faults \in Nat
  /\ \A s \in Scripts : step[s] \in {"new", "ready"} => next[s] = 1 /\ saved[s] = <<>>
  /\ ~met => \A s, t \in Scripts : step[s] \in Guarding /\ step[t] \in Guarding => s = t

\* The objects a script's loop has passed are paused.
PausedSoFar(s) ==
  /\ step[s] \in {"read", "annotate"} =>
       \A i \in 1..Objects : i < next[s] => annotation[i] = "true"
  /\ step[s] \in {"warm", "test", "collect"} => \A i \in 1..Objects : annotation[i] = "true"

PausedInv == ~met => \A s \in Scripts : PausedSoFar(s)

\* What a script has saved is what was there before it, and what it has not
\* saved, or has restored, is so still.
SavedSoFar(s) ==
  /\ step[s] \in Guarding =>
       /\ Len(saved[s]) <= Objects
       /\ \A i \in 1..Len(saved[s]) : saved[s][i] = original[i]
       /\ \A i \in 1..Objects : i > Len(saved[s]) => annotation[i] = original[i]
  /\ step[s] = "read" => Len(saved[s]) = next[s] - 1
  /\ step[s] = "annotate" => Len(saved[s]) = next[s]
  /\ step[s] = "restore" => \A i \in 1..Objects : i < next[s] => annotation[i] = original[i]

Nobody == \A s \in Scripts : step[s] \notin Guarding

SavedInv ==
  ~met /\ faults = 0 =>
    /\ \A s \in Scripts : SavedSoFar(s)
    /\ Nobody => annotation = original

GuardInv == AloneInv /\ PausedInv /\ SavedInv


\* A step by which one script goes on, without entering the guard.
LEMMA OneGoesOn ==
  ASSUME AloneInv, NEW s \in Scripts, NEW x \in Steps,
         step' = [step EXCEPT ![s] = x],
         x \in Guarding => step[s] \in Guarding,
         x \in {"new", "ready"} => step[s] \in {"new", "ready"} /\ next' = next /\ saved' = saved,
         annotation' \in [1..Objects -> Values], original' = original,
         next' \in [Scripts -> Nat \ {0}], saved' \in [Scripts -> Seq(Values)],
         \A t \in Scripts \ {s} : next'[t] = next[t] /\ saved'[t] = saved[t],
         met' = met, faults' \in Nat
  PROVE  AloneInv'
<1>1. step' \in [Scripts -> Steps]
  BY DEF AloneInv
<1>2. \A t \in Scripts : step'[t] = IF t = s THEN x ELSE step[t]
  BY DEF AloneInv
<1>3. \A t \in Scripts : step'[t] \in {"new", "ready"} => next'[t] = 1 /\ saved'[t] = <<>>
  BY <1>2 DEF AloneInv
<1>4. \A t \in Scripts : step'[t] \in Guarding => step[t] \in Guarding
  BY <1>2
<1>5. ~met' => \A t, u \in Scripts : step'[t] \in Guarding /\ step'[u] \in Guarding => t = u
  BY <1>4 DEF AloneInv
<1> QED BY <1>1, <1>3, <1>5 DEF AloneInv

\* A step that changes no script's place.
LEMMA NoneGoesOn ==
  ASSUME AloneInv, UNCHANGED <<step, original, saved, met>>,
         annotation' \in [1..Objects -> Values], next' \in [Scripts -> Nat \ {0}],
         \A t \in Scripts : step[t] \in {"new", "ready"} => next'[t] = next[t],
         faults' \in Nat
  PROVE  AloneInv'
BY DEF AloneInv

LEMMA AloneTypes ==
  ASSUME AloneInv
  PROVE  /\ annotation \in [1..Objects -> Values] /\ next \in [Scripts -> Nat \ {0}]
         /\ saved \in [Scripts -> Seq(Values)] /\ step \in [Scripts -> Steps] /\ faults \in Nat
BY DEF AloneInv

LEMMA AloneInvStep == AloneInv /\ [GuardNext]_guardVars => AloneInv'
<1> SUFFICES ASSUME AloneInv, [GuardNext]_guardVars PROVE AloneInv'
  OBVIOUS
<1>0. {"ready", "failed", "passed", "killed", "read", "annotate", "warm", "test", "collect",
       "restore"} \subseteq Steps
  BY DEF Steps, Guarding
<1>1. ASSUME NEW s \in Scripts, Preflight(s) PROVE AloneInv'
  <2>1. PICK x \in {"ready", "failed"} : step' = [step EXCEPT ![s] = x]
    BY <1>1 DEF Preflight, Goto
  <2>2. step[s] = "new" /\ UNCHANGED <<annotation, original, next, saved, met, faults>> /\ x \notin Guarding
    BY <1>1 DEF Preflight, Guarding
  <2> QED BY <1>0, <2>1, <2>2, AloneTypes, OneGoesOn
<1>2. ASSUME NEW s \in Scripts, EnterGuard(s) PROVE AloneInv'
  <2>1. /\ step[s] = "ready" /\ step' = [step EXCEPT ![s] = "read"]
        /\ met' = (met \/ \E t \in Scripts : step[t] \in Guarding)
        /\ UNCHANGED <<annotation, original, next, saved, faults>>
    BY <1>2 DEF EnterGuard, Goto
  <2>2. \A t \in Scripts : step'[t] = IF t = s THEN "read" ELSE step[t]
    BY <2>1 DEF AloneInv
  <2>3. ~met' => \A t, u \in Scripts : step'[t] \in Guarding /\ step'[u] \in Guarding => t = u
    BY <2>1, <2>2
  <2>4. step' \in [Scripts -> Steps]
    BY <1>0, <2>1 DEF AloneInv
  <2> QED BY <2>1, <2>2, <2>3, <2>4 DEF AloneInv
<1>3. ASSUME NEW s \in Scripts, ReadPrevious(s) PROVE AloneInv'
  <2>1. /\ step[s] = "read" /\ step' = [step EXCEPT ![s] = "annotate"]
        /\ next[s] \in 1..Objects
        /\ saved' = [saved EXCEPT ![s] = Append(saved[s], annotation[next[s]])]
        /\ UNCHANGED <<annotation, original, next, met, faults>>
    BY <1>3, AloneTypes, GuardAssumption DEF ReadPrevious, Goto
  <2>2. Append(saved[s], annotation[next[s]]) \in Seq(Values)
    BY <2>1, AloneTypes
  <2>3. saved' \in [Scripts -> Seq(Values)] /\ \A t \in Scripts \ {s} : saved'[t] = saved[t]
    BY <2>1, <2>2, AloneTypes
  <2> QED BY <1>0, <2>1, <2>3, AloneTypes, OneGoesOn DEF Guarding
<1>4. ASSUME NEW s \in Scripts, Pause(s) PROVE AloneInv'
  <2>1. /\ step[s] = "annotate" /\ step' = [step EXCEPT ![s] = "read"]
        /\ annotation' = [annotation EXCEPT ![next[s]] = "true"]
        /\ next' = [next EXCEPT ![s] = @ + 1]
        /\ UNCHANGED <<original, saved, met, faults>>
    BY <1>4 DEF Pause, Goto, Annotate
  <2>2. annotation' \in [1..Objects -> Values]
    BY <2>1, AloneTypes DEF Values
  <2>3. next' \in [Scripts -> Nat \ {0}] /\ \A t \in Scripts \ {s} : next'[t] = next[t]
    BY <2>1, AloneTypes
  <2> QED BY <1>0, <2>1, <2>2, <2>3, AloneTypes, OneGoesOn DEF Guarding
<1>5. ASSUME NEW s \in Scripts, GuardOn(s) \/ ApplyJob(s) \/ TestDone(s)
      PROVE  AloneInv'
  <2>1. /\ \E x \in {"warm", "test", "collect"} : step' = [step EXCEPT ![s] = x]
        /\ step[s] \in {"read", "warm", "test"}
        /\ UNCHANGED <<annotation, original, next, saved, met, faults>>
    BY <1>5 DEF GuardOn, ApplyJob, TestDone, Goto
  <2> QED BY <1>0, <2>1, AloneTypes, OneGoesOn DEF Guarding
<1>6. ASSUME NEW s \in Scripts, JobEnds(s) PROVE AloneInv'
  BY <1>6, AloneTypes, NoneGoesOn DEF JobEnds
<1>7. ASSUME NEW s \in Scripts, Collected(s) \/ Exits(s) PROVE AloneInv'
  <2>1. /\ step[s] \in Guarding /\ step' = [step EXCEPT ![s] = "restore"]
        /\ next' = [next EXCEPT ![s] = 1]
        /\ UNCHANGED <<annotation, original, saved, met, faults>>
    BY <1>7 DEF Collected, Exits, Goto, Guarding
  <2>2. next' \in [Scripts -> Nat \ {0}] /\ \A t \in Scripts \ {s} : next'[t] = next[t]
    BY <2>1, AloneTypes
  <2> QED BY <1>0, <2>1, <2>2, AloneTypes, OneGoesOn
<1>8. ASSUME NEW s \in Scripts, Restore(s) PROVE AloneInv'
  <2>1. /\ step[s] = "restore" /\ next[s] \in 1..Len(saved[s])
        /\ UNCHANGED <<original, step, saved, met>>
        /\ next' = [next EXCEPT ![s] = @ + 1]
        /\ annotation' = [annotation EXCEPT ![next[s]] = saved[s][next[s]]] \/ UNCHANGED annotation
        /\ faults' \in Nat
    BY <1>8, AloneTypes DEF Restore, Annotate, Fault
  <2>2. saved[s][next[s]] \in Values
    BY <2>1, ElementOfSeq, AloneTypes
  <2>3. annotation' \in [1..Objects -> Values]
    BY <2>1, <2>2, AloneTypes
  <2>4. next' \in [Scripts -> Nat \ {0}] /\ \A t \in Scripts \ {s} : next'[t] = next[t]
    BY <2>1, AloneTypes
  <2> QED BY <2>1, <2>3, <2>4, NoneGoesOn
<1>9. ASSUME NEW s \in Scripts, Restored(s) \/ Killed(s) PROVE AloneInv'
  <2>1. /\ \E x \in {"passed", "failed", "killed"} : step' = [step EXCEPT ![s] = x]
        /\ UNCHANGED <<annotation, original, next, saved, met>> /\ faults' \in Nat
    BY <1>9, AloneTypes DEF Restored, Killed, Goto, Fault
  <2> QED BY <1>0, <2>1, AloneTypes, OneGoesOn DEF Guarding
<1>10. CASE UNCHANGED guardVars
  BY <1>10, AloneTypes, NoneGoesOn DEF guardVars
<1> QED BY <1>1, <1>2, <1>3, <1>4, <1>5, <1>6, <1>7, <1>8, <1>9, <1>10 DEF GuardNext, ScriptStep

-----------------------------------------------------------------------------
\* While one script is inside, no other one is.
LEMMA NobodyElse ==
  ASSUME AloneInv, ~met, NEW s \in Scripts, step[s] \in Guarding, NEW t \in Scripts \ {s}
  PROVE  step[t] \notin Guarding
BY DEF AloneInv

\* What a step of one script leaves true of the others.
LEMMA OthersKeep ==
  ASSUME AloneInv, ~met, NEW s \in Scripts, NEW t \in Scripts \ {s},
         step'[t] = step[t], next'[t] = next[t], saved'[t] = saved[t], original' = original,
         annotation' = annotation \/ step[s] \in Guarding
  PROVE  /\ PausedSoFar(t) => PausedSoFar(t)'
         /\ SavedSoFar(t) => SavedSoFar(t)'
<1>1. CASE annotation' = annotation
  BY <1>1 DEF PausedSoFar, SavedSoFar
<1>2. CASE step[s] \in Guarding
  <2>1. step'[t] \notin Guarding
    BY <1>2, NobodyElse
  <2> QED BY <2>1 DEF PausedSoFar, SavedSoFar, Guarding
<1> QED BY <1>1, <1>2

\* A step is one script's: the others stay where they are, and annotations are
\* written from inside the guard only.
LEMMA OneMoves ==
  ASSUME AloneInv, NEW s \in Scripts, ScriptStep(s)
  PROVE  /\ \A t \in Scripts \ {s} : step'[t] = step[t] /\ next'[t] = next[t] /\ saved'[t] = saved[t]
         /\ original' = original
         /\ ~met' => ~met
         /\ annotation' = annotation \/ step[s] \in Guarding
<1>1. step' = step \/ \E x : step' = [step EXCEPT ![s] = x]
  BY DEF ScriptStep, Preflight, EnterGuard, ReadPrevious, Pause, GuardOn, ApplyJob,
         JobEnds, TestDone, Collected, Exits, Restore, Restored, Killed, Goto
<1>2. next' = next \/ \E x : next' = [next EXCEPT ![s] = x]
  BY DEF ScriptStep, Preflight, EnterGuard, ReadPrevious, Pause, GuardOn, ApplyJob,
         JobEnds, TestDone, Collected, Exits, Restore, Restored, Killed
<1>3. saved' = saved \/ \E x : saved' = [saved EXCEPT ![s] = x]
  BY DEF ScriptStep, Preflight, EnterGuard, ReadPrevious, Pause, GuardOn, ApplyJob,
         JobEnds, TestDone, Collected, Exits, Restore, Restored, Killed
<1>4. original' = original
  BY DEF ScriptStep, Preflight, EnterGuard, ReadPrevious, Pause, GuardOn, ApplyJob,
         JobEnds, TestDone, Collected, Exits, Restore, Restored, Killed
<1>5. ~met' => ~met
  <2>1. CASE EnterGuard(s)
    BY <2>1 DEF EnterGuard
  <2>2. CASE ~EnterGuard(s)
    <3>1. met' = met
      BY <2>2 DEF ScriptStep, Preflight, ReadPrevious, Pause, GuardOn, ApplyJob,
             JobEnds, TestDone, Collected, Exits, Restore, Restored, Killed
    <3> QED BY <3>1
  <2> QED BY <2>1, <2>2
<1>6. annotation' = annotation \/ step[s] \in Guarding
  BY DEF ScriptStep, Preflight, EnterGuard, ReadPrevious, Pause, GuardOn, ApplyJob,
         JobEnds, TestDone, Collected, Exits, Restore, Restored, Killed, Guarding
<1>7. /\ \A t \in Scripts \ {s} : step'[t] = step[t]
      /\ \A t \in Scripts \ {s} : next'[t] = next[t]
      /\ \A t \in Scripts \ {s} : saved'[t] = saved[t]
  BY <1>1, <1>2, <1>3, AloneTypes
<1> QED BY <1>4, <1>5, <1>6, <1>7

LEMMA PausedInvStep == AloneInv /\ PausedInv /\ [GuardNext]_guardVars => PausedInv'
<1> SUFFICES ASSUME AloneInv, PausedInv, [GuardNext]_guardVars, ~met'
             PROVE  \A s \in Scripts : PausedSoFar(s)'
  BY DEF PausedInv
<1> USE GuardAssumption
<1>0. ASSUME NEW s \in Scripts, ScriptStep(s) PROVE \A t \in Scripts : PausedSoFar(t)'
  <2>1. ~met
    BY <1>0, OneMoves
  <2>2. PausedSoFar(s)
    BY <2>1 DEF PausedInv
  <2>3. PausedSoFar(s)'
    <3>1. CASE Preflight(s) \/ EnterGuard(s) \/ Collected(s) \/ Exits(s) \/ Restored(s) \/ Killed(s)
      <4>1. CASE EnterGuard(s)
        <5>1. step'[s] = "read" /\ next'[s] = 1
          BY <4>1, AloneTypes DEF EnterGuard, Goto, AloneInv
        <5> QED BY <5>1 DEF PausedSoFar
      <4>2. CASE ~EnterGuard(s)
        <5>1. \E x \in {"ready", "failed", "restore", "passed", "killed"} : step' = [step EXCEPT ![s] = x]
          BY <3>1, <4>2 DEF Preflight, Collected, Exits, Restored, Killed, Goto
        <5>2. step'[s] \in {"ready", "failed", "restore", "passed", "killed"}
          BY <5>1, AloneTypes
        <5> QED BY <5>2 DEF PausedSoFar
      <4> QED BY <4>1, <4>2
    <3>2. CASE ReadPrevious(s)
      BY <3>2, <2>2, AloneTypes DEF ReadPrevious, Goto, PausedSoFar
    <3>3. CASE Pause(s)
      <4>1. /\ step[s] = "annotate" /\ step'[s] = "read" /\ next[s] \in Nat /\ next'[s] = next[s] + 1
            /\ annotation' = [annotation EXCEPT ![next[s]] = "true"]
        BY <3>3, AloneTypes DEF Pause, Goto, Annotate
      <4>2. \A i \in 1..Objects : i < next[s] + 1 => annotation'[i] = "true"
        BY <4>1, <2>2, AloneTypes DEF PausedSoFar
      <4> QED BY <4>1, <4>2 DEF PausedSoFar
    <3>4. CASE GuardOn(s)
      <4>1. /\ step[s] = "read" /\ step'[s] = "warm" /\ next[s] \in Nat /\ next[s] > Objects
            /\ annotation' = annotation
        BY <3>4, AloneTypes DEF GuardOn, Goto
      <4> QED BY <4>1, <2>2 DEF PausedSoFar
    <3>5. CASE ApplyJob(s) \/ TestDone(s)
      BY <3>5, <2>2, AloneTypes DEF ApplyJob, TestDone, Goto, PausedSoFar
    <3>6. CASE JobEnds(s)
      BY <3>6, <2>2 DEF JobEnds, PausedSoFar
    <3>7. CASE Restore(s)
      BY <3>7 DEF Restore, PausedSoFar
    <3> QED BY <1>0, <3>1, <3>2, <3>3, <3>4, <3>5, <3>6, <3>7 DEF ScriptStep
  <2>4. \A t \in Scripts \ {s} : PausedSoFar(t)'
    BY <1>0, <2>1, OneMoves, OthersKeep DEF PausedInv
  <2> QED BY <2>3, <2>4
<1>1. CASE UNCHANGED guardVars
  BY <1>1 DEF guardVars, PausedInv, PausedSoFar
<1> QED BY <1>0, <1>1 DEF GuardNext

-----------------------------------------------------------------------------
\* What is saved and what is not yet overwritten is the original value.
LEMMA SavedInvStep == AloneInv /\ SavedInv /\ [GuardNext]_guardVars => SavedInv'
<1> SUFFICES ASSUME AloneInv, SavedInv, [GuardNext]_guardVars, ~met', faults' = 0
             PROVE  /\ \A s \in Scripts : SavedSoFar(s)'
                    /\ Nobody' => annotation' = original'
  BY DEF SavedInv
<1> USE GuardAssumption
<1>0. ASSUME NEW s \in Scripts, ScriptStep(s)
      PROVE  (\A t \in Scripts : SavedSoFar(t)') /\ (Nobody' => annotation' = original')
  <2>1. ~met /\ faults = 0 /\ original' = original /\ ~Killed(s) /\ ~Fault
    <3>1. faults' = faults \/ faults' = faults + 1
      BY <1>0 DEF ScriptStep, Preflight, EnterGuard, ReadPrevious, Pause, GuardOn, ApplyJob,
         JobEnds, TestDone, Collected, Exits, Restore, Restored, Killed, Fault
    <3>2. faults = 0 /\ ~Fault
      BY <3>1, AloneTypes DEF Fault
    <3> QED BY <1>0, <3>2, OneMoves DEF Killed
  <2>2. (\A t \in Scripts : SavedSoFar(t)) /\ (Nobody => annotation = original)
    BY <2>1 DEF SavedInv
  <2>3. \A t \in Scripts \ {s} : SavedSoFar(t)'
    BY <1>0, <2>1, <2>2, OneMoves, OthersKeep
  <2>4. /\ saved[s] \in Seq(Values) /\ Len(saved[s]) \in Nat /\ next[s] \in Nat \ {0}
        /\ annotation \in [1..Objects -> Values] /\ original \in [1..Objects -> Values]
    BY LenProperties DEF AloneInv
  <2>5. step[s] \in Guarding =>
           /\ Len(saved[s]) <= Objects
           /\ \A i \in 1..Len(saved[s]) : saved[s][i] = original[i]
           /\ \A i \in 1..Objects : i > Len(saved[s]) => annotation[i] = original[i]
    BY <2>2 DEF SavedSoFar
  <2>6. CASE Preflight(s)
    <3>1. PICK x \in {"ready", "failed"} : step' = [step EXCEPT ![s] = x]
      BY <2>6 DEF Preflight, Goto
    <3>2. step[s] = "new" /\ step'[s] = x /\ annotation' = annotation
      BY <2>6, <3>1, AloneTypes DEF Preflight
    <3>3. SavedSoFar(s)'
      BY <3>2 DEF SavedSoFar, Guarding
    <3>4. Nobody' => Nobody
      BY <1>0, <3>2, OneMoves DEF Nobody, Guarding
    <3> QED BY <2>1, <2>2, <2>3, <3>2, <3>3, <3>4
  <2>7. CASE EnterGuard(s)
    <3>1. /\ step[s] = "ready" /\ step'[s] = "read" /\ next'[s] = 1 /\ saved'[s] = <<>>
          /\ annotation' = annotation
      BY <2>7, AloneTypes DEF EnterGuard, Goto, AloneInv
    <3>2. Nobody
      BY <2>7 DEF EnterGuard, Nobody
    <3>3. SavedSoFar(s)'
      BY <2>1, <2>2, <3>1, <3>2, EmptySeq DEF SavedSoFar
    <3>4. ~Nobody'
      BY <3>1 DEF Nobody, Guarding
    <3> QED BY <2>3, <3>3, <3>4
  <2>8. CASE ReadPrevious(s)
    <3>1. /\ step[s] = "read" /\ step'[s] = "annotate" /\ next[s] \in 1..Objects
          /\ next'[s] = next[s] /\ annotation' = annotation
          /\ saved'[s] = Append(saved[s], annotation[next[s]])
      BY <2>4, <2>8, AloneTypes DEF ReadPrevious, Goto
    <3>2. Len(saved[s]) = next[s] - 1
      BY <2>2, <3>1 DEF SavedSoFar
    <3>3. annotation[next[s]] \in Values /\ annotation[next[s]] = original[next[s]]
      BY <2>4, <2>5, <3>1, <3>2 DEF Guarding
    <3>4. /\ Len(saved'[s]) = next[s]
          /\ \A i \in 1..Len(saved[s]) : saved'[s][i] = saved[s][i]
          /\ saved'[s][next[s]] = annotation[next[s]]
      BY <2>4, <3>1, <3>2, <3>3, AppendProperties
    <3>5. \A i \in 1..next[s] : saved'[s][i] = original[i]
      <4>1. \A i \in 1..Len(saved[s]) : saved[s][i] = original[i]
        BY <2>5, <3>1 DEF Guarding
      <4>2. \A i \in 1..next[s] : i \in 1..Len(saved[s]) \/ i = next[s]
        BY <3>1, <3>2
      <4> QED BY <4>1, <4>2, <3>3, <3>4
    <3>6. \A i \in 1..Objects : i > next[s] => annotation[i] = original[i]
      BY <2>4, <2>5, <3>1, <3>2 DEF Guarding
    <3>7. SavedSoFar(s)'
      BY <2>1, <3>1, <3>4, <3>5, <3>6 DEF SavedSoFar
    <3>8. ~Nobody'
      BY <3>1 DEF Nobody, Guarding
    <3> QED BY <2>3, <3>7, <3>8
  <2>9. CASE Pause(s)
    <3>1. /\ step[s] = "annotate" /\ step'[s] = "read" /\ next'[s] = next[s] + 1
          /\ annotation' = [annotation EXCEPT ![next[s]] = "true"] /\ saved'[s] = saved[s]
      BY <2>9, AloneTypes DEF Pause, Goto, Annotate
    <3>2. Len(saved[s]) = next[s]
      BY <2>2, <3>1 DEF SavedSoFar
    <3>3. \A i \in 1..Objects : i > Len(saved[s]) => annotation'[i] = original[i]
      BY <2>4, <2>5, <3>1, <3>2 DEF Guarding
    <3>4. Len(saved[s]) <= Objects /\ \A i \in 1..Len(saved[s]) : saved[s][i] = original[i]
      BY <2>5, <3>1 DEF Guarding
    <3>5. Len(saved'[s]) = next'[s] - 1
      BY <2>4, <3>1, <3>2
    <3>6. SavedSoFar(s)'
      BY <2>1, <3>1, <3>3, <3>4, <3>5 DEF SavedSoFar
    <3>7. ~Nobody'
      BY <3>1 DEF Nobody, Guarding
    <3> QED BY <2>3, <3>6, <3>7
  <2>10. CASE GuardOn(s) \/ ApplyJob(s) \/ TestDone(s)
    <3>1. /\ step[s] \in Guarding /\ step'[s] \in {"warm", "test", "collect"}
          /\ annotation' = annotation /\ saved' = saved
      BY <2>10, AloneTypes DEF GuardOn, ApplyJob, TestDone, Goto, Guarding
    <3>2. SavedSoFar(s)'
      BY <2>1, <2>5, <3>1 DEF SavedSoFar
    <3>3. ~Nobody'
      BY <3>1 DEF Nobody, Guarding
    <3> QED BY <2>3, <3>2, <3>3
  <2>11. CASE JobEnds(s)
    <3>1. UNCHANGED <<annotation, original, step, next, saved>>
      BY <2>11 DEF JobEnds
    <3>2. SavedSoFar(s)' /\ (Nobody' => Nobody)
      BY <2>2, <3>1 DEF SavedSoFar, Nobody
    <3> QED BY <2>2, <2>3, <3>1, <3>2
  <2>12. CASE Collected(s) \/ Exits(s)
    <3>1. /\ step[s] \in Guarding /\ step'[s] = "restore" /\ next'[s] = 1
          /\ annotation' = annotation /\ saved' = saved
      BY <2>12, AloneTypes DEF Collected, Exits, Goto, Guarding
    <3>2. \A i \in 1..Objects : ~(i < next'[s])
      BY <3>1
    <3>3. SavedSoFar(s)'
      BY <2>1, <2>5, <3>1, <3>2 DEF SavedSoFar
    <3>4. ~Nobody'
      BY <3>1 DEF Nobody, Guarding
    <3> QED BY <2>3, <3>3, <3>4
  <2>13. CASE Restore(s)
    <3>1. /\ step[s] = "restore" /\ step'[s] = "restore" /\ next[s] \in 1..Len(saved[s])
          /\ next'[s] = next[s] + 1 /\ saved' = saved
          /\ annotation' = [annotation EXCEPT ![next[s]] = saved[s][next[s]]]
      BY <2>1, <2>4, <2>13, AloneTypes DEF Restore, Annotate
    <3>2. saved[s][next[s]] = original[next[s]]
      BY <2>5, <3>1 DEF Guarding
    <3>3. \A i \in 1..Objects : i < next[s] => annotation[i] = original[i]
      BY <2>2, <3>1 DEF SavedSoFar
    <3>4. /\ \A i \in 1..Objects : i < next[s] + 1 => annotation'[i] = original[i]
          /\ \A i \in 1..Objects : i > Len(saved[s]) => annotation'[i] = original[i]
      BY <2>4, <2>5, <3>1, <3>2, <3>3 DEF Guarding
    <3>5. SavedSoFar(s)'
      BY <2>1, <2>5, <3>1, <3>4 DEF SavedSoFar, Guarding
    <3>6. ~Nobody'
      BY <3>1 DEF Nobody, Guarding
    <3> QED BY <2>3, <3>5, <3>6
  <2>14. CASE Restored(s)
    <3>1. /\ step[s] = "restore" /\ next[s] > Len(saved[s]) /\ annotation' = annotation
      BY <2>14 DEF Restored
    <3>2. PICK x \in {"passed", "failed"} : step' = [step EXCEPT ![s] = x]
      BY <2>14 DEF Restored, Goto
    <3>3. step'[s] = x
      BY <3>2, AloneTypes
    <3>4. SavedSoFar(s)'
      BY <3>3 DEF SavedSoFar, Guarding
    <3>5. \A i \in 1..Objects : i < next[s] => annotation[i] = original[i]
      BY <2>2, <3>1 DEF SavedSoFar
    <3>6. \A i \in 1..Objects : annotation[i] = original[i]
      BY <2>4, <2>5, <3>1, <3>5 DEF Guarding
    <3>7. annotation = original
      BY <2>4, <3>6
    <3> QED BY <2>1, <2>3, <3>1, <3>4, <3>7
  <2> QED BY <1>0, <2>1, <2>6, <2>7, <2>8, <2>9, <2>10, <2>11, <2>12, <2>13, <2>14 DEF ScriptStep
<1>1. CASE UNCHANGED guardVars
  BY <1>1 DEF guardVars, SavedInv, SavedSoFar, Nobody
<1> QED BY <1>0, <1>1 DEF GuardNext

-----------------------------------------------------------------------------
\* GuardInv is an invariant of the load-test scripts.
LEMMA GuardInvariant == GuardSpec => []GuardInv
<1>1. GuardInit => GuardInv
  <2> SUFFICES ASSUME GuardInit PROVE GuardInv
    OBVIOUS
  <2>1. "new" \in Steps /\ "new" \notin Guarding
    BY DEF Steps, Guarding
  <2>2. AloneInv
    BY <2>1, GuardAssumption DEF GuardInit, AloneInv
  <2>3. PausedInv /\ SavedInv
    BY <2>1 DEF GuardInit, PausedInv, PausedSoFar, SavedInv, SavedSoFar
  <2> QED BY <2>2, <2>3 DEF GuardInv
<1>2. GuardInv /\ [GuardNext]_guardVars => GuardInv'
  BY AloneInvStep, PausedInvStep, SavedInvStep DEF GuardInv
<1> QED BY <1>1, <1>2, PTL DEF GuardSpec

\* While a script measures and has met no other one, every ScaledObject has its
\* scale-in paused, whatever was annotated before the run.
THEOREM PausedTesting == GuardSpec => []PausedWhileTesting
<1>1. GuardInv => PausedWhileTesting
  BY DEF GuardInv, PausedInv, PausedSoFar, PausedWhileTesting
<1> QED BY <1>1, GuardInvariant, PTL

\* A script that has exited, from whatever point, has left every annotation as it
\* found it, if it met no other script and no call of its trap failed.
THEOREM RestoredExact == GuardSpec => []RestoredExactly
<1>1. GuardInv => RestoredExactly
  BY DEF GuardInv, SavedInv, Nobody, RestoredExactly
<1> QED BY <1>1, GuardInvariant, PTL

\* A loop never passes the last object: what a script has saved and where it is
\* belong together, whether or not scripts have met.
PlaceOK(s) ==
  /\ step[s] \in {"new", "ready"} => next[s] = 1 /\ saved[s] = <<>>
  /\ step[s] = "read" => Len(saved[s]) = next[s] - 1
  /\ step[s] = "annotate" => Len(saved[s]) = next[s]
  /\ Len(saved[s]) <= Objects

PlaceInv == GuardTypeOK /\ \A s \in Scripts : PlaceOK(s)

\* A step of one script changes nothing of where the others are.
LEMMA PlaceOfOthers ==
  ASSUME PlaceInv, GuardTypeOK', NEW s \in Scripts, PlaceOK(s)',
         \A t \in Scripts \ {s} : step'[t] = step[t] /\ next'[t] = next[t] /\ saved'[t] = saved[t]
  PROVE  PlaceInv'
BY DEF PlaceInv, PlaceOK

LEMMA PlaceStep == PlaceInv /\ [GuardNext]_guardVars => PlaceInv'
<1> SUFFICES ASSUME PlaceInv, [GuardNext]_guardVars PROVE PlaceInv'
  OBVIOUS
<1> USE GuardAssumption
<1>0. GuardTypeOK /\ (\A s \in Scripts : PlaceOK(s)) /\ \A s \in Scripts : Len(saved[s]) \in Nat
  BY DEF PlaceInv, GuardTypeOK
<1>1. ASSUME NEW s \in Scripts,
             Preflight(s) \/ EnterGuard(s) \/ GuardOn(s) \/ ApplyJob(s) \/ TestDone(s)
               \/ Restored(s) \/ Killed(s)
      PROVE  PlaceInv'
  <2>1. PICK x \in Steps : step' = [step EXCEPT ![s] = x] /\ x # "new" /\ x # "annotate"
                           /\ (x = "read" => step[s] = "ready") /\ (x = "ready" => step[s] = "new")
    BY <1>1 DEF Preflight, EnterGuard, GuardOn, ApplyJob, TestDone, Restored, Killed, Goto,
                Steps, Guarding
  <2>2. UNCHANGED <<annotation, original, next, saved>>
    BY <1>1 DEF Preflight, EnterGuard, GuardOn, ApplyJob, TestDone, Restored, Killed
  <2>3. jobs' \subseteq Scripts /\ met' \in BOOLEAN /\ faults' \in 0..MaxFaults
    <3>1. jobs' \subseteq Scripts
      BY <1>1, <1>0 DEF Preflight, EnterGuard, GuardOn, ApplyJob, TestDone, Restored, Killed,
                        GuardTypeOK
    <3>2. met' \in BOOLEAN
      BY <1>1, <1>0, Zenon DEF Preflight, EnterGuard, GuardOn, ApplyJob, TestDone, Restored, Killed,
                               GuardTypeOK
    <3>3. faults' \in 0..MaxFaults
      BY <1>1, <1>0 DEF Preflight, EnterGuard, GuardOn, ApplyJob, TestDone, Restored, Killed,
                        Fault, GuardTypeOK
    <3> QED BY <3>1, <3>2, <3>3
  <2>4. GuardTypeOK'
    BY <1>0, <2>1, <2>2, <2>3 DEF GuardTypeOK
  <2>5. PlaceOK(s)'
    <3>1. step'[s] = x /\ next'[s] = next[s] /\ saved'[s] = saved[s] /\ next[s] \in Nat
      BY <1>0, <2>1, <2>2 DEF GuardTypeOK
    <3> QED BY <1>0, <2>1, <3>1 DEF PlaceOK
  <2> QED BY <2>1, <2>2, <2>4, <2>5, PlaceOfOthers
<1>2. ASSUME NEW s \in Scripts, ReadPrevious(s) PROVE PlaceInv'
  <2> DEFINE value == annotation[next[s]]
  <2>1. /\ step[s] = "read" /\ next[s] \in 1..Objects /\ value \in Values
        /\ saved[s] \in Seq(Values) /\ Len(saved[s]) = next[s] - 1
    BY <1>0, <1>2 DEF ReadPrevious, GuardTypeOK, PlaceOK
  <2>2. /\ saved' = [saved EXCEPT ![s] = Append(saved[s], value)]
        /\ step' = [step EXCEPT ![s] = "annotate"]
        /\ UNCHANGED <<annotation, original, next, jobs, met, faults>>
    BY <1>2 DEF ReadPrevious, Goto
  <2> HIDE DEF value
  <2>3. Append(saved[s], value) \in Seq(Values) /\ Len(Append(saved[s], value)) = next[s]
    BY <2>1
  <2>4. GuardTypeOK'
    BY <1>0, <2>2, <2>3 DEF GuardTypeOK, Steps, Guarding
  <2>5. PlaceOK(s)'
    <3>1. step'[s] = "annotate" /\ next'[s] = next[s] /\ saved'[s] = Append(saved[s], value)
      BY <1>0, <2>2 DEF GuardTypeOK
    <3> QED BY <2>1, <2>3, <3>1 DEF PlaceOK
  <2> QED BY <2>2, <2>4, <2>5, PlaceOfOthers
<1>3. ASSUME NEW s \in Scripts, Pause(s) PROVE PlaceInv'
  <2>1. step[s] = "annotate" /\ Len(saved[s]) = next[s] /\ next[s] \in 1..Objects
    BY <1>0, <1>3 DEF Pause, GuardTypeOK, PlaceOK
  <2>2. /\ annotation' = [annotation EXCEPT ![next[s]] = "true"]
        /\ next' = [next EXCEPT ![s] = next[s] + 1]
        /\ step' = [step EXCEPT ![s] = "read"]
        /\ UNCHANGED <<original, saved, jobs, met, faults>>
    BY <1>3 DEF Pause, Annotate, Goto
  <2>3. next[s] + 1 \in 1..(Objects + 1)
    BY <2>1
  <2>4. GuardTypeOK'
    BY <1>0, <2>2, <2>3 DEF GuardTypeOK, Steps, Guarding, Values
  <2>5. PlaceOK(s)'
    <3>1. step'[s] = "read" /\ next'[s] = next[s] + 1 /\ saved'[s] = saved[s]
      BY <1>0, <2>2 DEF GuardTypeOK
    <3> QED BY <1>0, <2>1, <3>1 DEF PlaceOK
  <2> QED BY <2>2, <2>4, <2>5, PlaceOfOthers
<1>4. ASSUME NEW s \in Scripts, JobEnds(s) PROVE PlaceInv'
  BY <1>4 DEF JobEnds, PlaceInv, PlaceOK, GuardTypeOK
<1>5. ASSUME NEW s \in Scripts, Collected(s) \/ Exits(s) PROVE PlaceInv'
  <2>1. /\ step' = [step EXCEPT ![s] = "restore"] /\ next' = [next EXCEPT ![s] = 1]
        /\ UNCHANGED <<annotation, original, saved, jobs, met, faults>>
    BY <1>5 DEF Collected, Exits, Goto
  <2>2. GuardTypeOK'
    BY <1>0, <2>1 DEF GuardTypeOK, Steps, Guarding
  <2>3. PlaceOK(s)'
    <3>1. step'[s] = "restore" /\ saved'[s] = saved[s]
      BY <1>0, <2>1 DEF GuardTypeOK
    <3> QED BY <1>0, <3>1 DEF PlaceOK
  <2> QED BY <2>1, <2>2, <2>3, PlaceOfOthers
<1>6. ASSUME NEW s \in Scripts, Restore(s) PROVE PlaceInv'
  <2>1. /\ step[s] = "restore" /\ next[s] \in 1..Len(saved[s]) /\ saved[s] \in Seq(Values)
        /\ Len(saved[s]) <= Objects
    BY <1>0, <1>6 DEF Restore, GuardTypeOK, PlaceOK
  <2>2. saved[s][next[s]] \in Values
    BY <2>1
  <2>3. next[s] + 1 \in 1..(Objects + 1)
    BY <1>0, <2>1
  <2>4. /\ next' = [next EXCEPT ![s] = next[s] + 1]
        /\ UNCHANGED <<original, step, saved, jobs, met>>
    BY <1>6 DEF Restore
  <2>5. annotation' \in [1..Objects -> Values] /\ faults' \in 0..MaxFaults
    <3>1. CASE Annotate(next[s], saved[s][next[s]]) /\ UNCHANGED faults
      BY <1>0, <2>2, <3>1 DEF Annotate, GuardTypeOK
    <3>2. CASE Fault /\ UNCHANGED annotation
      BY <1>0, <3>2 DEF Fault, GuardTypeOK
    <3> QED BY <1>6, <3>1, <3>2 DEF Restore
  <2>6. GuardTypeOK'
    BY <1>0, <2>3, <2>4, <2>5 DEF GuardTypeOK
  <2>7. PlaceOK(s)'
    BY <1>0, <2>1, <2>4 DEF PlaceOK
  <2> QED BY <2>4, <2>6, <2>7, PlaceOfOthers
<1>7. CASE UNCHANGED guardVars
  BY <1>7 DEF guardVars, PlaceInv, PlaceOK, GuardTypeOK
<1> QED BY <1>1, <1>2, <1>3, <1>4, <1>5, <1>6, <1>7 DEF GuardNext, ScriptStep

\* For any scripts and objects, met or not: no script goes past the objects there
\* are, and every annotation stays one of the values a script can find or write.
THEOREM GuardTyped == GuardSpec => []GuardTypeOK
<1>1. GuardInit => PlaceInv
  <2> SUFFICES ASSUME GuardInit PROVE PlaceInv
    OBVIOUS
  <2>1. /\ \A s \in Scripts : step[s] = "new" /\ next[s] = 1 /\ saved[s] = <<>>
        /\ next \in [Scripts -> 1..(Objects + 1)] /\ faults \in 0..MaxFaults
    BY GuardAssumption DEF GuardInit
  <2>2. \A s \in Scripts : PlaceOK(s)
    BY <2>1, GuardAssumption DEF PlaceOK
  <2>3. GuardTypeOK
    <3>1. step \in [Scripts -> Steps] /\ saved \in [Scripts -> Seq(Values)]
      BY DEF GuardInit, Steps
    <3>2. met \in BOOLEAN
      BY Zenon DEF GuardInit
    <3> QED BY <2>1, <3>1, <3>2 DEF GuardInit, GuardTypeOK
  <2> QED BY <2>2, <2>3 DEF PlaceInv
<1>2. PlaceInv => GuardTypeOK
  BY DEF PlaceInv
<1> QED BY <1>1, <1>2, PlaceStep, PTL DEF GuardSpec

-----------------------------------------------------------------------------
(* The verdicts *)

\* Numbers are not None.
LEMMA Known == ASSUME NEW n \in Int PROVE n # Absent
BY ComparisonAssumption

\* A container whose metrics are complete was measured as it is, by every exporter
\* that has not seen it in part only.
LEMMA MeasuredAsIs ==
  ASSUME NEW m \in Measurements, NEW part, NEW view \in Views,
         collect_workload(m, part, view).cpu # Absent, view["state"] # "some"
  PROVE  LET item == collect_workload(m, part, view) IN
         /\ item.cpu = m.cpu /\ item.mem = m.mem /\ item.replicas = m.replicas
         /\ item.limit = m.limit /\ item.oom = m.oom /\ item.restarts = m.restarts
         /\ ~Partly(view) => /\ item.avg = IF view["usage"] = "all" THEN m.avg ELSE Absent
                            /\ item.p95 = IF view["usage"] = "all" THEN m.p95 ELSE Absent
<1>1. view["state"] = "all"
  BY DEF collect_workload, Views
<1>2. ~Partly(view) => view["usage"] \in {"all", "none"}
  BY DEF Partly, Views
<1> QED BY <1>1, <1>2 DEF collect_workload

\* A complete document shows every container, measured as it is.
LEMMA CompleteIsTrue ==
  ASSUME NEW facts \in [Containers -> Measurements], NEW parts, NEW trouble \in AllTroubles,
         NEW http, NEW inputs,
         metrics_complete(collect(facts, parts, trouble, http, inputs)),
         NEW c \in Containers
  PROVE  LET items == collect(facts, parts, trouble, http, inputs).workloads IN
         /\ DOMAIN items = Containers
         /\ trouble.views[c]["state"] # "some" =>
              /\ items[c].cpu = facts[c].cpu /\ items[c].mem = facts[c].mem
              /\ items[c].replicas = facts[c].replicas
              /\ items[c].oom = facts[c].oom /\ items[c].restarts = facts[c].restarts
              /\ items[c].limit = facts[c].limit
         /\ ~Partly(trouble.views[c]) /\ facts[c].limit # 0 =>
              items[c].avg = facts[c].avg /\ items[c].p95 = facts[c].p95
<1> DEFINE run == collect(facts, parts, trouble, http, inputs)
           view == trouble.views[c]
           item == collect_workload(facts[c], parts[c], view)
<1>1. /\ DOMAIN run.workloads = Containers \ trouble.raising
      /\ \A d \in Containers \ trouble.raising :
           run.workloads[d] = collect_workload(facts[d], parts[d], trouble.views[d])
  BY DEF collect
<1>2. DOMAIN run.workloads = Containers
  BY DEF metrics_complete, Items
<1>3. run.workloads[c] = item
  BY <1>1, <1>2
<1>4. /\ item.cpu # Absent
      /\ cpu_limited(item) => item.avg # Absent /\ item.p95 # Absent
  BY <1>3 DEF metrics_complete
<1>5. view \in Views /\ facts[c] \in Measurements
  BY DEF AllTroubles
<1> HIDE DEF run, item, view
<1>6. view["state"] # "some" =>
        /\ item.cpu = facts[c].cpu /\ item.mem = facts[c].mem /\ item.replicas = facts[c].replicas
        /\ item.limit = facts[c].limit /\ item.oom = facts[c].oom /\ item.restarts = facts[c].restarts
        /\ ~Partly(view) =>
             /\ item.avg = IF view["usage"] = "all" THEN facts[c].avg ELSE Absent
             /\ item.p95 = IF view["usage"] = "all" THEN facts[c].p95 ELSE Absent
  BY <1>4, <1>5, MeasuredAsIs DEF item
<1>7. ~Partly(view) => view["state"] # "some"
  BY DEF Partly
<1>8. ~Partly(view) /\ facts[c].limit # 0 => item.avg = facts[c].avg /\ item.p95 = facts[c].p95
  <2>1. facts[c].limit \in Int
    BY <1>5 DEF Measurements
  <2>2. ~Partly(view) /\ facts[c].limit # 0 => cpu_limited(item)
    BY <2>1, <1>6, <1>7, Known DEF cpu_limited
  <2> QED BY <2>2, <1>4, <1>6, <1>7
<1> QED BY <1>2, <1>3, <1>6, <1>8 DEF run, view

\* A document that is complete, quiet and not throttled is one of containers that
\* really were sound, as far as they were not seen in part only.
LEMMA CalmIsSound ==
  ASSUME NEW facts \in [Containers -> Measurements], NEW parts, NEW trouble \in AllTroubles,
         NEW http, NEW inputs,
         metrics_complete(collect(facts, parts, trouble, http, inputs)),
         ~Throttled(collect(facts, parts, trouble, http, inputs)),
         Quiet(collect(facts, parts, trouble, http, inputs)),
         NEW c \in Containers
  PROVE  /\ trouble.views[c]["state"] # "some" => Unharmed(facts[c])
         /\ ~Partly(trouble.views[c]) => Calm(facts[c])
<1> DEFINE run == collect(facts, parts, trouble, http, inputs)
           item == run.workloads[c]
           view == trouble.views[c]
<1>1. /\ DOMAIN run.workloads = Containers
      /\ view["state"] # "some" =>
           /\ item.oom = facts[c].oom /\ item.restarts = facts[c].restarts
           /\ item.limit = facts[c].limit
      /\ ~Partly(view) /\ facts[c].limit # 0 =>
           item.avg = facts[c].avg /\ item.p95 = facts[c].p95
  BY CompleteIsTrue
<1>2. metrics_complete(run) /\ ~Throttled(run) /\ Quiet(run)
  OBVIOUS
<1>3. facts[c].limit \in Int
  BY DEF Measurements
<1> HIDE DEF run, view
<1>4. item.oom = 0 /\ item.restarts = 0
  BY <1>1, <1>2 DEF Quiet, Items
<1>5. ASSUME ~Partly(view), facts[c].limit # 0 PROVE facts[c].avg < 5 /\ facts[c].p95 < 20
  <2>1. view["state"] # "some"
    BY <1>5 DEF Partly
  <2>2. cpu_limited(item)
    BY <1>1, <1>3, <1>5, <2>1, Known DEF cpu_limited
  <2>3. item.avg < 5 /\ item.p95 < 20
    BY <2>2, <1>1, <1>2 DEF Throttled, Limited, Items
  <2> QED BY <2>3, <1>1, <1>5
<1> QED BY <1>1, <1>4, <1>5 DEF Unharmed, Calm, view

\* The comparison's criteria contain those of a run and of each container.
LEMMA ComparisonIsStricter ==
  ASSUME NEW pre, NEW post, Passes(pre, post)
  PROVE  /\ evaluate_run(post)
         /\ \A c \in Containers : ContainerPasses(post.workloads[c])
<1>1. /\ metrics_complete(post) /\ ErrorsRare(post.http) /\ post.http.dropped = 0
      /\ ~Throttled(post) /\ Quiet(post)
  BY DEF Passes
<1>2. Limited(post) # {}
  BY <1>1 DEF Throttled
<1>3. evaluate_run(post)
  BY <1>1, <1>2 DEF evaluate_run
<1>4. ASSUME NEW c \in Containers PROVE ContainerPasses(post.workloads[c])
  <2>1. c \in Items(post)
    BY <1>1 DEF metrics_complete
  <2>2. cpu_limited(post.workloads[c]) => c \in Limited(post)
    BY <2>1 DEF Limited
  <2> QED BY <1>1, <2>1, <2>2 DEF Throttled, Quiet, ContainerPasses
<1> QED BY <1>3, <1>4

-----------------------------------------------------------------------------
\* Documents are collected of what was the case, their verdicts are theirs, and
\* a comparison is that of the documents that are there.
DocumentInv ==
  /\ document = [p \in Phases |-> document[p]]
  /\ truth = [p \in Phases |-> truth[p]]
  /\ troubled = [p \in Phases |-> troubled[p]]
  /\ verdict = [p \in Phases |-> verdict[p]]
  /\ \A p \in Phases : verdict[p] # Absent =>
       /\ truth[p] \in [Containers -> Facts]
       /\ troubled[p] \in AllTroubles
       /\ \E parts, http, inputs :
            document[p] = collect(truth[p], parts, troubled[p], http, inputs)
       /\ verdict[p] = PassOrFail(evaluate_run(document[p]))
  /\ \A p \in Phases : document[p] # Absent => verdict[p] # Absent
  /\ comparison = "PASS" =>
       /\ \A p \in Phases : document[p] # Absent
       /\ Passes(document["pre"], document["post"])

LEMMA DocumentInvInit == VerdictsInit => DocumentInv
BY ComparisonAssumption DEF VerdictsInit, DocumentInv

LEMMA DocumentInvStep == DocumentInv /\ [VerdictsNext]_verdictVars => DocumentInv'
<1> SUFFICES ASSUME DocumentInv, [VerdictsNext]_verdictVars PROVE DocumentInv'
  OBVIOUS
<1>1. ASSUME NEW p \in Phases, RunEnds(p) PROVE DocumentInv'
  <2>1. PICK facts \in [Containers -> Facts], trouble \in Troubles, http \in Https,
             inputs \in Inputs :
          \E part \in [{c \in Containers : Partly(trouble.views[c])} -> Facts] :
            LET parts == [c \in Containers |-> IF c \in DOMAIN part THEN part[c] ELSE facts[c]]
                run == collect(facts, parts, trouble, http, inputs)
            IN  /\ truth' = [truth EXCEPT ![p] = facts]
                /\ troubled' = [troubled EXCEPT ![p] = trouble]
                /\ document' = [document EXCEPT ![p] = run]
                /\ verdict' = [verdict EXCEPT ![p] = PassOrFail(evaluate_run(run))]
    BY <1>1 DEF RunEnds
  <2>2. PICK parts :
          LET run == collect(facts, parts, trouble, http, inputs)
          IN  /\ truth' = [truth EXCEPT ![p] = facts]
              /\ troubled' = [troubled EXCEPT ![p] = trouble]
              /\ document' = [document EXCEPT ![p] = run]
              /\ verdict' = [verdict EXCEPT ![p] = PassOrFail(evaluate_run(run))]
    BY <2>1
  <2> DEFINE run == collect(facts, parts, trouble, http, inputs)
  <2>3. /\ truth'[p] = facts /\ troubled'[p] = trouble
        /\ document'[p] = run /\ verdict'[p] = PassOrFail(evaluate_run(run))
        /\ \A q \in Phases \ {p} : /\ truth'[q] = truth[q] /\ document'[q] = document[q]
                                   /\ troubled'[q] = troubled[q] /\ verdict'[q] = verdict[q]
        /\ document' = [q \in Phases |-> document'[q]]
        /\ truth' = [q \in Phases |-> truth'[q]]
        /\ troubled' = [q \in Phases |-> troubled'[q]]
        /\ verdict' = [q \in Phases |-> verdict'[q]]
    BY <2>2 DEF DocumentInv
  <2>4. comparison' = comparison /\ comparison # "PASS"
    BY <1>1 DEF RunEnds, DocumentInv
  <2>5. /\ run = collect(truth'[p], parts, troubled'[p], http, inputs)
        /\ truth'[p] \in [Containers -> Facts] /\ troubled'[p] \in AllTroubles
    BY <2>3, FactsAssumption
  <2>6. verdict'[p] # Absent
    BY <2>3, ComparisonAssumption DEF PassOrFail
  <2> QED BY <2>3, <2>4, <2>5, <2>6 DEF DocumentInv
<1>2. CASE CompareRuns
  BY <1>2 DEF CompareRuns, DocumentInv, PassOrFail
<1>3. CASE UNCHANGED verdictVars
  BY <1>3 DEF verdictVars, DocumentInv
<1> QED BY <1>1, <1>2, <1>3 DEF VerdictsNext

\* For any containers and measurements, and whichever exporters and queries failed:
\* in a run that passes every container that was not seen in part only was sound.
THEOREM VerdictBacked == VerdictsSpec => []VerdictIsBacked
<1>1. ASSUME DocumentInv, NEW p \in Phases, verdict[p] = "PASS", NEW c \in Containers
      PROVE  Backed(p, c)
  <2>1. verdict[p] # Absent
    BY <1>1, ComparisonAssumption
  <2>2. PICK parts, http, inputs :
          document[p] = collect(truth[p], parts, troubled[p], http, inputs)
    BY <1>1, <2>1 DEF DocumentInv
  <2>3. truth[p] \in [Containers -> Measurements] /\ troubled[p] \in AllTroubles
    BY <1>1, <2>1, FactsAssumption DEF DocumentInv
  <2>4. evaluate_run(document[p])
    BY <1>1, <2>1 DEF DocumentInv, PassOrFail
  <2>5. metrics_complete(document[p]) /\ ~Throttled(document[p]) /\ Quiet(document[p])
    BY <2>4 DEF evaluate_run
  <2> QED BY <1>1, <2>2, <2>3, <2>5, CalmIsSound DEF Backed
<1>2. DocumentInv => VerdictIsBacked
  BY <1>1 DEF VerdictIsBacked
<1> QED BY <1>2, DocumentInvInit, DocumentInvStep, PTL DEF VerdictsSpec

\* For any containers and measurements: a comparison that passes never
\* contradicts the verdict of the second run or that of a container.
THEOREM ComparisonAgrees == VerdictsSpec => []PassAgrees
<1>1. ASSUME DocumentInv, comparison = "PASS"
      PROVE  /\ verdict["post"] = "PASS"
             /\ \A c \in Containers : ContainerPasses(document["post"].workloads[c])
  <2>1. Passes(document["pre"], document["post"]) /\ verdict["post"] # Absent
    BY <1>1 DEF DocumentInv, Phases
  <2>2. verdict["post"] = PassOrFail(evaluate_run(document["post"]))
    BY <1>1, <2>1 DEF DocumentInv, Phases
  <2> QED BY <2>1, <2>2, ComparisonIsStricter DEF PassOrFail
<1>2. DocumentInv => PassAgrees
  BY <1>1 DEF PassAgrees
<1> QED BY <1>2, DocumentInvInit, DocumentInvStep, PTL DEF VerdictsSpec

\* The requests of complete documents, of containers that were not seen in part
\* only, add up to those that were the case.
LEMMA CapacityIsTrue ==
  ASSUME NEW facts \in [Containers -> Measurements], NEW parts, NEW trouble \in AllTroubles,
         NEW http, NEW inputs,
         metrics_complete(collect(facts, parts, trouble, http, inputs)),
         \A c \in Containers : trouble.views[c]["state"] # "some"
  PROVE  LET items == collect(facts, parts, trouble, http, inputs).workloads IN
         CpuCapacity(items) = CpuCapacity(facts) /\ MemCapacity(items) = MemCapacity(facts)
<1> DEFINE items == collect(facts, parts, trouble, http, inputs).workloads
<1>1. \A c \in Containers : /\ items[c].cpu = facts[c].cpu /\ items[c].mem = facts[c].mem
                            /\ items[c].replicas = facts[c].replicas
  BY CompleteIsTrue
<1> HIDE DEF items
<1>2. /\ [c \in Containers |-> items[c].cpu * items[c].replicas] =
           [c \in Containers |-> facts[c].cpu * facts[c].replicas]
      /\ [c \in Containers |-> items[c].mem * items[c].replicas] =
           [c \in Containers |-> facts[c].mem * facts[c].replicas]
  BY <1>1
<1>3. CpuCapacity(items) = CpuCapacity(facts) /\ MemCapacity(items) = MemCapacity(facts)
  BY <1>2 DEF CpuCapacity, MemCapacity
<1> QED BY <1>3 DEF items

\* For any containers and measurements: a comparison passes only if the containers
\* really were sound afterwards and less was really requested, but for what was
\* seen in part only.
THEOREM PassBacked == VerdictsSpec => []PassIsBacked
<1>1. ASSUME DocumentInv, comparison = "PASS"
      PROVE  /\ \A c \in Containers : Backed("post", c)
             /\ (\A p \in Phases, c \in Containers : troubled[p].views[c]["state"] # "some")
                  => Smaller(truth["post"], truth["pre"])
  <2> DEFINE pre == document["pre"]
             post == document["post"]
  <2>1. Passes(pre, post) /\ verdict["pre"] # Absent /\ verdict["post"] # Absent
    BY <1>1 DEF DocumentInv, Phases
  <2>2. PICK s1, h1, i1 : pre = collect(truth["pre"], s1, troubled["pre"], h1, i1)
    BY <1>1, <2>1 DEF DocumentInv, Phases
  <2>3. PICK s2, h2, i2 : post = collect(truth["post"], s2, troubled["post"], h2, i2)
    BY <1>1, <2>1 DEF DocumentInv, Phases
  <2>4. /\ truth["pre"] \in [Containers -> Measurements] /\ troubled["pre"] \in AllTroubles
        /\ truth["post"] \in [Containers -> Measurements] /\ troubled["post"] \in AllTroubles
    BY <1>1, <2>1, FactsAssumption DEF DocumentInv, Phases
  <2> HIDE DEF pre, post
  <2>5. /\ metrics_complete(pre) /\ metrics_complete(post) /\ ~Throttled(post) /\ Quiet(post)
        /\ Smaller(post.workloads, pre.workloads)
    BY <2>1 DEF Passes, Reduced
  <2>6. \A c \in Containers : Backed("post", c)
    BY <2>3, <2>4, <2>5, CalmIsSound DEF Backed
  <2>7. ASSUME \A p \in Phases, c \in Containers : troubled[p].views[c]["state"] # "some"
        PROVE  Smaller(truth["post"], truth["pre"])
    <3>1. /\ \A c \in Containers : troubled["pre"].views[c]["state"] # "some"
          /\ \A c \in Containers : troubled["post"].views[c]["state"] # "some"
      BY <2>7 DEF Phases
    <3>2. /\ CpuCapacity(pre.workloads) = CpuCapacity(truth["pre"])
          /\ MemCapacity(pre.workloads) = MemCapacity(truth["pre"])
      BY <2>2, <2>4, <2>5, <3>1, CapacityIsTrue
    <3>3. /\ CpuCapacity(post.workloads) = CpuCapacity(truth["post"])
          /\ MemCapacity(post.workloads) = MemCapacity(truth["post"])
      BY <2>3, <2>4, <2>5, <3>1, CapacityIsTrue
    <3> QED BY <2>5, <3>2, <3>3 DEF Smaller
  <2> QED BY <2>6, <2>7
<1>2. DocumentInv => PassIsBacked
  BY <1>1 DEF PassIsBacked
<1> QED BY <1>2, DocumentInvInit, DocumentInvStep, PTL DEF VerdictsSpec

\* A document whose KRR window is accepted covers the experiment: what KRR looked
\* at begins and ends within twice the tolerance of it.
THEOREM WindowCovers ==
  ASSUME NEW start \in Int, NEW end \in Int, NEW history \in Int, NEW executed \in Int,
         NEW tolerance \in Int, WindowAccepted(start, end, history, executed, tolerance)
  PROVE  Near(executed - history, start, 2 * tolerance) /\ Near(executed, end, tolerance)
BY DEF WindowAccepted, Near
=============================================================================
