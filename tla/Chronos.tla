------------------------------ MODULE Chronos ------------------------------
(***************************************************************************)
(* The forecast service of chronos/app.py: one background thread that      *)
(* forecasts every target in turn, and HTTP threads that refresh the       *)
(* validity of a forecast before they serve it.                            *)
(*                                                                         *)
(* Every critical section of the runtime's lock is one step.  The clock is *)
(* read before the lock is taken, and GET /metrics collects one gauge      *)
(* after the other without the lock: these are steps of their own.         *)
(***************************************************************************)
EXTENDS Integers

CONSTANTS
  Targets,       \* namespace/deployment pairs
  Primary,       \* the target readiness looks at
  Requests,      \* HTTP threads
  Ttl,           \* forecast_ttl_seconds
  Interval,      \* forecast_interval_seconds
  MinReplicas, MaxReplicas,
  MaxDemand,     \* bound on the replicas a forecast asks for
  MaxTime,       \* bound on the clock, for model checking
  MaxRestarts    \* bound on restarts of the pod, for model checking

\* ForecastSettings.validate()
ASSUME SettingsAssumption ==
  /\ Primary \in Targets
  /\ Interval \in Nat \ {0} /\ Ttl \in Nat /\ Ttl >= Interval
  /\ MinReplicas \in Nat \ {0} /\ MaxReplicas \in Nat /\ MaxReplicas >= MinReplicas
  /\ MaxDemand \in Nat /\ MaxTime \in Nat /\ MaxRestarts \in Nat

VARIABLES
  mode,      \* CHRONOS_MODE
  clock,
  latest,    \* latest forecast of each target
  valid,     \* RuntimeState.valid
  scaling,   \* gauge chronos_scaling_replicas
  usable,    \* gauge chronos_forecast_valid: the targets that show 1
  loop,      \* where the background thread is
  left,      \* targets this round has still to forecast
  request,   \* where each HTTP thread is
  fresh,     \* history: targets a request under way may show as valid
  restarts

stateVars == <<latest, valid, scaling, usable>>
loopVars  == <<loop, left>>
webVars   == <<request, fresh>>
vars == <<mode, clock, stateVars, loopVars, webVars, restarts>>

Modes == {"disabled", "shadow", "active"}
NoForecast == [at |-> -1, replicas |-> 0]
Forecasts == [at : 0..MaxTime, replicas : MinReplicas..MaxReplicas]

\* The thread sleeps until a time, chooses the next target, or forecasts one
\* since a time.
Sleeping(until) == [step |-> "wait", target |-> Primary, time |-> until]
Round == [step |-> "round", target |-> Primary, time |-> 0]
Running(t, since) == [step |-> "forecast", target |-> t, time |-> since]

RequestStates ==
  [kind : {"none", "metrics", "predict", "ready"},
   step : {"idle", "clock", "refresh", "scaling", "valid", "answer"},
   todo : SUBSET Targets, target : Targets, now : 0..MaxTime]

Idle == [kind |-> "none", step |-> "idle", todo |-> {}, target |-> Primary, now |-> 0]

TypeOK ==
  /\ mode \in Modes
  /\ clock \in 0..MaxTime
  /\ latest \in [Targets -> Forecasts \cup {NoForecast}]
  /\ valid \in [Targets -> BOOLEAN]
  /\ scaling \in [Targets -> 0..MaxReplicas]
  /\ usable \subseteq Targets
  /\ loop \in [step : {"wait", "round", "forecast"}, target : Targets,
               time : 0..MaxTime + Interval]
  /\ left \subseteq Targets
  /\ request \in [Requests -> RequestStates]
  /\ fresh \in [Requests -> SUBSET Targets]
  /\ restarts \in 0..MaxRestarts

StartState ==
  /\ mode' \in Modes
  /\ latest' = [t \in Targets |-> NoForecast]
  /\ valid' = [t \in Targets |-> FALSE]
  /\ scaling' = [t \in Targets |-> 0]
  /\ usable' = {}
  /\ loop' = Round
  /\ left' = Targets
  /\ request' = [r \in Requests |-> Idle]
  /\ fresh' = [r \in Requests |-> {}]

Init ==
  /\ mode \in Modes
  /\ clock = 0
  /\ latest = [t \in Targets |-> NoForecast]
  /\ valid = [t \in Targets |-> FALSE]
  /\ scaling = [t \in Targets |-> 0]
  /\ usable = {}
  /\ loop = Round
  /\ left = Targets
  /\ request = [r \in Requests |-> Idle]
  /\ fresh = [r \in Requests |-> {}]
  /\ restarts = 0

-----------------------------------------------------------------------------
(* The background thread: _run_loop(), run_once(), _run_once_for() *)

Wake ==
  /\ loop.step = "wait" /\ clock >= loop.time
  /\ loop' = Round
  /\ left' = Targets
  /\ UNCHANGED <<mode, clock, stateVars, webVars, restarts>>

RoundEnds ==
  /\ loop.step = "round" /\ left = {}
  /\ loop' = Sleeping(clock + Interval)
  /\ UNCHANGED <<mode, clock, stateVars, left, webVars, restarts>>

\* A disabled target: its gauges are set to their inactive values.
Skip(t) ==
  /\ loop.step = "round" /\ t \in left
  /\ mode = "disabled"
  /\ left' = left \ {t}
  /\ valid' = [valid EXCEPT ![t] = FALSE]
  /\ scaling' = [scaling EXCEPT ![t] = 0]
  /\ usable' = usable \ {t}
  /\ UNCHANGED <<mode, clock, latest, loop, webVars, restarts>>

\* forecast() takes its time stamp first: what follows, a query with a timeout,
\* the first loading of the model and the inference, may take any time.
StartForecast(t) ==
  /\ loop.step = "round" /\ t \in left
  /\ mode # "disabled"
  /\ left' = left \ {t}
  /\ loop' = Running(t, clock)
  /\ UNCHANGED <<mode, clock, stateVars, webVars, restarts>>

\* Mutant of Clamped: the upper end is not clamped.
Unclamped(demand) == IF demand < MinReplicas THEN MinReplicas ELSE demand

Clamped(demand) ==
  IF demand < MinReplicas THEN MinReplicas
  ELSE IF demand > MaxReplicas THEN MaxReplicas ELSE demand

\* The result is stored, however long it took, and shown by all gauges.
Store(demand) ==
  /\ loop.step = "forecast"
  /\ latest' = [latest EXCEPT ![loop.target] = [at |-> loop.time, replicas |-> Clamped(demand)]]
  /\ valid' = [valid EXCEPT ![loop.target] = TRUE]
  /\ scaling' = [scaling EXCEPT ![loop.target] = IF mode = "active" THEN Clamped(demand) ELSE 0]
  /\ usable' = usable \cup {loop.target}
  /\ fresh' = [r \in Requests |-> IF request[r] = Idle THEN {} ELSE fresh[r] \cup {loop.target}]
  /\ loop' = Round
  /\ UNCHANGED <<mode, clock, left, request, restarts>>

\* Mutant of ForecastFails: the gauge is withdrawn, the state is not.
ForecastFailsQuietly ==
  /\ loop.step = "forecast"
  /\ scaling' = [scaling EXCEPT ![loop.target] = 0]
  /\ usable' = usable \ {loop.target}
  /\ loop' = Round
  /\ UNCHANGED <<mode, clock, latest, valid, left, webVars, restarts>>

\* No data, a timeout or an error of the model: the older forecast is kept, but
\* no longer valid.
ForecastFails ==
  /\ loop.step = "forecast"
  /\ valid' = [valid EXCEPT ![loop.target] = FALSE]
  /\ scaling' = [scaling EXCEPT ![loop.target] = 0]
  /\ usable' = usable \ {loop.target}
  /\ loop' = Round
  /\ UNCHANGED <<mode, clock, latest, left, webVars, restarts>>

-----------------------------------------------------------------------------
(* HTTP requests *)

Valid(t) == valid[t] /\ clock - latest[t].at <= Ttl

Arrive(r, kind, t) ==
  /\ request[r] = Idle
  /\ CASE kind = "metrics" -> t = Primary
       [] kind = "ready"   -> t = Primary /\ mode # "disabled"
       [] kind = "predict" -> TRUE
  /\ request' = [request EXCEPT ![r] =
       [kind |-> kind, step |-> "clock", target |-> t, now |-> 0,
        todo |-> IF kind = "metrics" THEN Targets ELSE {t}]]
  /\ fresh' = [fresh EXCEPT ![r] = {u \in Targets : Valid(u)}]
  /\ UNCHANGED <<mode, clock, stateVars, loopVars, restarts>>

\* time.time() at the top of _refresh_expiry_for(), before the lock.
ReadClock(r, t) ==
  /\ request[r].step = "clock" /\ t \in request[r].todo
  /\ request' = [request EXCEPT ![r].step = "refresh", ![r].target = t, ![r].now = clock]
  /\ UNCHANGED <<mode, clock, stateVars, loopVars, fresh, restarts>>

Finish(r) ==
  /\ request' = [request EXCEPT ![r] = Idle]
  /\ fresh' = [fresh EXCEPT ![r] = {}]
  /\ UNCHANGED <<mode, clock, loopVars, restarts>>

Continue(r, step) ==
  /\ request' = [request EXCEPT ![r].step = step, ![r].todo = @ \ {request[r].target},
                                ![r].now = 0]
  /\ UNCHANGED <<mode, clock, loopVars, fresh, restarts>>

\* What follows the refresh of one target; readiness answers with its result.
AfterRefresh(r) ==
  LET last == request[r].todo = {request[r].target}
      kind == request[r].kind IN
  \/ ~last /\ Continue(r, "clock")
  \/ last /\ kind = "metrics" /\ Continue(r, "scaling")
  \/ last /\ kind = "predict" /\ Continue(r, "answer")
  \/ last /\ kind = "ready" /\ Finish(r)

StillValid(t, now) == valid[t] /\ latest[t] # NoForecast /\ now - latest[t].at <= Ttl

\* Mutant of Refresh: an expired forecast is marked, its gauges are left alone.
RefreshStateOnly(r) ==
  LET t == request[r].target
      still == StillValid(t, request[r].now) IN
  /\ request[r].step = "refresh"
  /\ valid' = [valid EXCEPT ![t] = still]
  /\ AfterRefresh(r)
  /\ UNCHANGED <<latest, scaling, usable>>

\* _refresh_expiry_for()
Refresh(r) ==
  LET t == request[r].target
      still == StillValid(t, request[r].now) IN
  /\ request[r].step = "refresh"
  /\ valid' = [valid EXCEPT ![t] = still]
  /\ scaling' = IF still THEN scaling ELSE [scaling EXCEPT ![t] = 0]
  /\ usable' = IF still THEN usable ELSE usable \ {t}
  /\ AfterRefresh(r)
  /\ UNCHANGED latest

\* generate_latest(): first the scaling signals of all targets ...
CollectScaling(r) ==
  /\ request[r].step = "scaling"
  /\ request' = [request EXCEPT ![r].step = "valid"]
  /\ UNCHANGED <<mode, clock, stateVars, loopVars, fresh, restarts>>

\* ... and later their validity.
CollectValid(r) ==
  /\ request[r].step = "valid"
  /\ Finish(r)
  /\ UNCHANGED stateVars

\* prediction_response() takes the lock again; without a valid forecast, 503.
Predict(r) ==
  /\ request[r].step = "answer"
  /\ Finish(r)
  /\ UNCHANGED stateVars

\* The targets that the next step of a request shows as valid.
Shown(r) ==
  CASE request[r].step = "scaling" -> {t \in Targets : scaling[t] # 0}
    [] request[r].step = "valid"   -> usable
    [] request[r].step = "answer"  -> {t \in {request[r].target} : valid[t]}
    [] request[r].step = "refresh" /\ request[r].kind = "ready" ->
         {t \in {request[r].target} : StillValid(t, request[r].now)}
    [] OTHER -> {}

-----------------------------------------------------------------------------
Tick ==
  /\ clock < MaxTime
  /\ clock' = clock + 1
  /\ UNCHANGED <<mode, stateVars, loopVars, webVars, restarts>>

\* The pod is replaced, perhaps with another mode; everything was in memory.
Restart ==
  /\ restarts < MaxRestarts
  /\ restarts' = restarts + 1
  /\ StartState
  /\ UNCHANGED clock

LoopStep ==
  \/ Wake \/ RoundEnds \/ ForecastFails
  \/ \E t \in Targets : Skip(t) \/ StartForecast(t)
  \/ \E demand \in 0..MaxDemand : Store(demand)

RequestStep(r) ==
  \/ \E t \in Targets : ReadClock(r, t)
  \/ \E kind \in {"metrics", "predict", "ready"}, t \in Targets : Arrive(r, kind, t)
  \/ Refresh(r) \/ CollectScaling(r) \/ CollectValid(r) \/ Predict(r)

Next ==
  \/ LoopStep
  \/ \E r \in Requests : RequestStep(r)
  \/ Tick \/ Restart

Spec == Init /\ [][Next]_vars

-----------------------------------------------------------------------------
\* A scaling signal, a validity of 1, a prediction or a readiness is served only
\* for a target whose forecast was valid and not older than its TTL when the
\* request arrived, or was stored since: however the reading of the clock, the
\* lock and the gauges interleave with the forecasts and with other requests.
OnlyFreshIsServed == \A r \in Requests : Shown(r) \subseteq fresh[r]

\* The gauges are a second copy of the state that three functions write: they
\* show a signal exactly for a valid forecast in active mode, and its replicas.
GaugesFollowState ==
  \A t \in Targets :
    /\ t \in usable <=> valid[t]
    /\ scaling[t] = IF valid[t] /\ mode = "active" THEN latest[t].replicas ELSE 0
=============================================================================
