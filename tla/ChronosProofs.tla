--------------------------- MODULE ChronosProofs ---------------------------
(***************************************************************************)
(* Proofs about Chronos: its types, the agreement of the gauges with the   *)
(* state, and the freshness of everything a request serves, for any        *)
(* targets, threads, lifetimes and limits.                                 *)
(***************************************************************************)
EXTENDS Chronos, TLAPS

\* Nothing is known from the future, and what is valid is known.
TimeInv ==
  /\ loop.step = "forecast" => loop.time <= clock
  /\ \A t \in Targets : latest[t].at <= clock
  /\ \A t \in Targets : valid[t] => latest[t] # NoForecast

\* The targets a request may come to show.
Concerns(r, t) == request[r].kind = "metrics" \/ request[r].target = t

\* Where a request is decides what it has still to refresh.
ProgressInv ==
  \A r \in Requests :
    /\ request[r].step \in {"scaling", "valid"} => request[r].kind = "metrics"
    /\ request[r].step \in {"scaling", "valid", "answer"} => request[r].todo = {}
    /\ request[r].step = "refresh" => request[r].target \in request[r].todo
    /\ request[r].kind # "metrics" => request[r].todo \subseteq {request[r].target}

\* A valid forecast that the request must not show has expired, on its own
\* clock too, and the request has still to refresh it.
StaleInv ==
  \A r \in Requests, t \in Targets :
    (request[r].step # "idle" /\ Concerns(r, t) /\ valid[t] /\ t \notin fresh[r]) =>
      /\ t \in request[r].todo
      /\ clock > latest[t].at + Ttl
      /\ (request[r].step = "refresh" /\ request[r].target = t)
           => request[r].now > latest[t].at + Ttl

IInv == TypeOK /\ TimeInv /\ GaugesFollowState /\ ProgressInv /\ StaleInv

LEMMA ClampedType ==
  ASSUME NEW demand \in 0..MaxDemand
  PROVE  Clamped(demand) \in MinReplicas..MaxReplicas
BY SettingsAssumption DEF Clamped

\* The ways in which a request goes on.
LEMMA ReadClockType ==
  ASSUME TypeOK, NEW r \in Requests, NEW t \in Targets, ReadClock(r, t)
  PROVE  request' \in [Requests -> RequestStates]
<1> DEFINE q == request[r]
<1>1. q \in RequestStates /\ clock \in 0..MaxTime
      BY DEF TypeOK
<1>2. [q EXCEPT !.step = "refresh", !.target = t, !.now = clock] \in RequestStates
      BY <1>1 DEF RequestStates
<1>3. request' = [request EXCEPT ![r] =
                    [q EXCEPT !.step = "refresh", !.target = t, !.now = clock]]
      BY DEF ReadClock, TypeOK
<1> QED BY <1>2, <1>3 DEF TypeOK

LEMMA ContinueType ==
  ASSUME TypeOK, NEW r \in Requests, NEW step \in {"clock", "scaling", "answer"},
         Continue(r, step)
  PROVE  request' \in [Requests -> RequestStates]
<1> DEFINE q == request[r]
           next == [q EXCEPT !.step = step, !.todo = @ \ {q.target}, !.now = 0]
<1>1. q \in RequestStates /\ 0 \in 0..MaxTime
      BY SettingsAssumption DEF TypeOK
<1>2. next \in RequestStates
      BY <1>1 DEF RequestStates
<1>3. request' = [request EXCEPT ![r] = next]
      BY DEF Continue, TypeOK
<1> QED BY <1>2, <1>3 DEF TypeOK

LEMMA FinishType ==
  ASSUME TypeOK, NEW r \in Requests, Finish(r)
  PROVE  request' \in [Requests -> RequestStates]
BY SettingsAssumption DEF TypeOK, RequestStates, Finish, Idle

LEMMA InvInit == Init => IInv
<1> SUFFICES ASSUME Init PROVE IInv
    OBVIOUS
<1> USE SettingsAssumption DEF Init, Idle, Round, NoForecast
<1>1. TypeOK
      BY DEF TypeOK, RequestStates, Modes
<1>2. TimeInv /\ GaugesFollowState
      BY DEF TimeInv, GaugesFollowState
<1>3. ProgressInv /\ StaleInv
      BY DEF ProgressInv, StaleInv
<1> QED BY <1>1, <1>2, <1>3 DEF IInv

LEMMA LoopKeepsInv == ASSUME IInv, LoopStep PROVE IInv'
<1> USE SettingsAssumption DEF IInv
<1>1. CASE Wake \/ RoundEnds
  <2>1. TypeOK'
        BY <1>1 DEF TypeOK, Wake, RoundEnds, Round, Sleeping, stateVars, webVars
  <2>2. (TimeInv /\ GaugesFollowState /\ ProgressInv /\ StaleInv)'
        BY <1>1 DEF TimeInv, GaugesFollowState, ProgressInv, StaleInv, Concerns, Wake, RoundEnds,
                    Round, Sleeping, stateVars, webVars
  <2> QED BY <2>1, <2>2
<1>2. ASSUME NEW t \in Targets, Skip(t) PROVE IInv'
  <2>1. TypeOK'
        BY <1>2 DEF TypeOK, Skip, webVars
  <2>2. TimeInv' /\ GaugesFollowState'
        BY <1>2 DEF TypeOK, TimeInv, GaugesFollowState, Skip
  <2>3. ProgressInv' /\ StaleInv'
        BY <1>2 DEF TypeOK, ProgressInv, StaleInv, Concerns, Skip, webVars
  <2> QED BY <2>1, <2>2, <2>3
<1>3. ASSUME NEW t \in Targets, StartForecast(t) PROVE IInv'
  <2>1. TypeOK'
        BY <1>3 DEF TypeOK, StartForecast, Running, stateVars, webVars
  <2>2. (TimeInv /\ GaugesFollowState /\ ProgressInv /\ StaleInv)'
        BY <1>3 DEF TypeOK, TimeInv, GaugesFollowState, ProgressInv, StaleInv, Concerns,
                    StartForecast, Running, stateVars, webVars
  <2> QED BY <2>1, <2>2
<1>4. ASSUME NEW demand \in 0..MaxDemand, Store(demand) PROVE IInv'
  <2> DEFINE stored == [at |-> loop.time, replicas |-> Clamped(demand)]
  <2>1. stored \in Forecasts /\ stored # NoForecast
        BY <1>4, ClampedType DEF TypeOK, TimeInv, Store, Forecasts, NoForecast
  <2>2. TypeOK'
        BY <1>4, <2>1, ClampedType DEF TypeOK, Store, Round
  <2>3. TimeInv'
        BY <1>4, <2>1 DEF TypeOK, TimeInv, Store, Round
  <2>4. GaugesFollowState'
        BY <1>4 DEF TypeOK, GaugesFollowState, Store
  <2>5. ProgressInv' /\ StaleInv'
        BY <1>4 DEF TypeOK, ProgressInv, StaleInv, Concerns, Store, Idle
  <2> QED BY <2>2, <2>3, <2>4, <2>5
<1>5. CASE ForecastFails
  <2>1. TypeOK'
        BY <1>5 DEF TypeOK, ForecastFails, Round, webVars
  <2>2. TimeInv' /\ GaugesFollowState'
        BY <1>5 DEF TypeOK, TimeInv, GaugesFollowState, ForecastFails, Round
  <2>3. ProgressInv' /\ StaleInv'
        BY <1>5 DEF TypeOK, ProgressInv, StaleInv, Concerns, ForecastFails, webVars
  <2> QED BY <2>1, <2>2, <2>3
<1> QED BY <1>1, <1>2, <1>3, <1>4, <1>5 DEF LoopStep

LEMMA ArriveKeepsInv ==
  ASSUME IInv, NEW r \in Requests, NEW t \in Targets,
         NEW kind \in {"metrics", "predict", "ready"}, Arrive(r, kind, t)
  PROVE  IInv'
<1> USE SettingsAssumption DEF IInv
<1>1. TypeOK'
      BY DEF TypeOK, RequestStates, Arrive, stateVars, loopVars
<1>2. TimeInv' /\ GaugesFollowState'
      BY DEF TimeInv, GaugesFollowState, Arrive, stateVars, loopVars
<1>3. ProgressInv'
      BY DEF TypeOK, ProgressInv, Arrive
<1>4. StaleInv'
  <2> SUFFICES ASSUME NEW s \in Requests, NEW u \in Targets,
                      request'[s].step # "idle", Concerns(s, u)', valid'[u], u \notin fresh'[s]
               PROVE  /\ u \in request'[s].todo
                      /\ clock' > latest'[u].at + Ttl
                      /\ (request'[s].step = "refresh" /\ request'[s].target = u)
                           => request'[s].now > latest'[u].at + Ttl
      BY DEF StaleInv
  <2>1. CASE s # r
        BY <2>1 DEF TypeOK, StaleInv, Concerns, Arrive, stateVars
  <2>2. CASE s = r
    <3>1. latest[u].at \in Int
          BY DEF TypeOK, Forecasts, NoForecast
    <3>2. ~Valid(u) /\ valid[u]
          BY <2>2 DEF TypeOK, Arrive, stateVars
    <3>3. clock > latest[u].at + Ttl
          BY <3>1, <3>2 DEF TypeOK, Valid
    <3> QED BY <2>2, <3>3 DEF TypeOK, Concerns, Arrive, stateVars
  <2> QED BY <2>1, <2>2
<1> QED BY <1>1, <1>2, <1>3, <1>4

LEMMA ReadClockKeepsInv ==
  ASSUME IInv, NEW r \in Requests, NEW t \in Targets, ReadClock(r, t)
  PROVE  IInv'
<1> USE SettingsAssumption DEF IInv
<1>1. TypeOK'
      BY ReadClockType DEF TypeOK, ReadClock, stateVars, loopVars
<1>2. TimeInv' /\ GaugesFollowState'
      BY DEF TimeInv, GaugesFollowState, ReadClock, stateVars, loopVars
<1>3. ProgressInv'
      BY DEF TypeOK, ProgressInv, ReadClock
<1>4. StaleInv'
      BY DEF TypeOK, ProgressInv, StaleInv, Concerns, ReadClock, stateVars
<1> QED BY <1>1, <1>2, <1>3, <1>4

\* A request whose next step ends it, or goes on without touching the state.
LEMMA FinishKeepsInv ==
  ASSUME IInv, NEW r \in Requests,
         CollectScaling(r) \/ CollectValid(r) \/ Predict(r)
  PROVE  IInv'
<1> USE SettingsAssumption DEF IInv, CollectScaling, CollectValid, Predict, Finish, Idle
<1>1. TypeOK'
  <2>1. CASE CollectScaling(r)
    <3>1. [request[r] EXCEPT !.step = "valid"] \in RequestStates
          BY DEF TypeOK, RequestStates
    <3> QED BY <2>1, <3>1 DEF TypeOK, stateVars, loopVars
  <2>2. CASE Finish(r) /\ UNCHANGED stateVars
        BY <2>2, FinishType DEF TypeOK, stateVars, loopVars
  <2> QED BY <2>1, <2>2
<1>2. TimeInv' /\ GaugesFollowState'
      BY DEF TimeInv, GaugesFollowState, stateVars, loopVars
<1>3. \A s \in Requests :
        \/ s # r /\ request'[s] = request[s] /\ fresh'[s] = fresh[s]
        \/ request'[s] = Idle
        \/ /\ request[s].step = "scaling" /\ request'[s] = [request[s] EXCEPT !.step = "valid"]
           /\ fresh'[s] = fresh[s]
      BY DEF TypeOK
<1>4. ProgressInv'
      BY <1>3 DEF TypeOK, RequestStates, ProgressInv
<1>5. UNCHANGED <<clock, stateVars>>
      OBVIOUS
<1>6. StaleInv'
      BY <1>3, <1>5 DEF TypeOK, RequestStates, StaleInv, Concerns, stateVars
<1> QED BY <1>1, <1>2, <1>4, <1>6

\* The heart of the argument: a refresh withdraws what the request must not show.
LEMMA RefreshKeepsInv == ASSUME IInv, NEW r \in Requests, Refresh(r) PROVE IInv'
<1> DEFINE t == request[r].target
           now == request[r].now
<1> USE SettingsAssumption DEF IInv
<1>1. t \in Targets /\ now \in Nat /\ \A u \in Targets : latest[u].at \in Int
      BY DEF TypeOK, RequestStates, Forecasts, NoForecast
<1>2. /\ request[r].step = "refresh"
      /\ valid' = [valid EXCEPT ![t] = StillValid(t, now)]
      /\ UNCHANGED <<mode, clock, latest, loop, left, restarts>>
      BY DEF Refresh, AfterRefresh, Continue, Finish, loopVars
<1>3. \A u \in Targets : valid'[u] => valid[u]
      BY <1>1, <1>2 DEF TypeOK, StillValid
<1>4. \/ \E step \in {"clock", "scaling", "answer"} :
           /\ Continue(r, step)
           /\ step = "clock" \/ request[r].todo = {t}
           /\ step = "scaling" => request[r].kind = "metrics"
      \/ Finish(r)
      BY DEF Refresh, AfterRefresh, TypeOK
<1>5. TypeOK'
  <2>1. valid' \in [Targets -> BOOLEAN] /\ usable' \subseteq Targets
        BY DEF TypeOK, Refresh, StillValid
  <2>2. scaling' \in [Targets -> 0..MaxReplicas]
        BY DEF TypeOK, RequestStates, Refresh
  <2>3. request' \in [Requests -> RequestStates]
        BY <1>4, ContinueType, FinishType DEF TypeOK
  <2>4. fresh' \in [Requests -> SUBSET Targets]
        BY <1>4 DEF TypeOK, Continue, Finish
  <2> QED BY <1>2, <2>1, <2>2, <2>3, <2>4 DEF TypeOK
<1>6. TimeInv'
      BY <1>2, <1>3 DEF TimeInv
<1>7. GaugesFollowState'
  <2>1. CASE StillValid(t, now)
        BY <1>1, <1>2, <2>1 DEF Refresh, GaugesFollowState, TypeOK, StillValid
  <2>2. CASE ~StillValid(t, now)
        BY <1>1, <1>2, <2>2 DEF Refresh, GaugesFollowState, TypeOK
  <2> QED BY <2>1, <2>2
<1>8. ProgressInv'
  <2>1. CASE Finish(r)
        BY <2>1 DEF TypeOK, RequestStates, ProgressInv, Finish, Idle
  <2>2. ASSUME NEW step \in {"clock", "scaling", "answer"}, Continue(r, step),
               step = "clock" \/ request[r].todo = {t},
               step = "scaling" => request[r].kind = "metrics"
        PROVE  ProgressInv'
    <3>1. /\ request'[r].step = step /\ request'[r].kind = request[r].kind
          /\ request'[r].target = t /\ request'[r].todo = request[r].todo \ {t}
          /\ \A s \in Requests \ {r} : request'[s] = request[s]
          BY <2>2 DEF TypeOK, RequestStates, Continue
    <3> QED BY <2>2, <3>1 DEF ProgressInv
  <2> QED BY <1>4, <2>1, <2>2
<1>9. StaleInv'
  <2> SUFFICES ASSUME NEW s \in Requests, NEW u \in Targets,
                      request'[s].step # "idle", Concerns(s, u)', valid'[u], u \notin fresh'[s]
               PROVE  /\ u \in request'[s].todo
                      /\ clock' > latest'[u].at + Ttl
                      /\ (request'[s].step = "refresh" /\ request'[s].target = u)
                           => request'[s].now > latest'[u].at + Ttl
      BY DEF StaleInv
  <2>1. CASE s # r
        BY <1>2, <1>3, <1>4, <2>1 DEF TypeOK, StaleInv, Concerns, Continue, Finish
  <2>2. CASE s = r
    <3>1. request'[r].step # "refresh" /\ request'[r].kind = request[r].kind
          /\ request'[r].target = t /\ request'[r].todo = request[r].todo \ {t}
          /\ fresh' = fresh
          BY <1>4, <2>2 DEF TypeOK, RequestStates, Continue, Finish, Idle
    <3>2. u \in request[r].todo /\ clock > latest[u].at + Ttl
          /\ (u = t => now > latest[t].at + Ttl)
          BY <1>2, <1>3, <2>2, <3>1 DEF StaleInv, Concerns
    <3>3. u # t
      <4>1. valid'[t] => now - latest[t].at <= Ttl
            BY <1>1, <1>2 DEF TypeOK, StillValid
      <4> QED BY <1>1, <3>2, <4>1
    <3> QED BY <1>2, <2>2, <3>1, <3>2, <3>3
  <2> QED BY <2>1, <2>2
<1> QED BY <1>5, <1>6, <1>7, <1>8, <1>9

LEMMA InvNext == IInv /\ [Next]_vars => IInv'
<1> SUFFICES ASSUME IInv, [Next]_vars PROVE IInv'
    OBVIOUS
<1>1. CASE LoopStep
      BY <1>1, LoopKeepsInv
<1>2. ASSUME NEW r \in Requests, RequestStep(r) PROVE IInv'
      BY <1>2, ArriveKeepsInv, ReadClockKeepsInv, FinishKeepsInv, RefreshKeepsInv DEF RequestStep
<1>3. CASE Tick
  <2> USE <1>3, SettingsAssumption DEF IInv, Tick, stateVars, loopVars, webVars
  <2>1. TypeOK'
        BY DEF TypeOK
  <2>2. \A t \in Targets : latest[t].at \in Int
        BY DEF TypeOK, Forecasts, NoForecast
  <2>3. TimeInv' /\ GaugesFollowState'
        BY <2>2 DEF TypeOK, TimeInv, GaugesFollowState
  <2>4. ProgressInv' /\ StaleInv'
        BY <2>2 DEF TypeOK, ProgressInv, StaleInv, Concerns
  <2> QED BY <2>1, <2>3, <2>4
<1>4. CASE Restart
  <2> USE <1>4, SettingsAssumption DEF IInv, Restart, StartState, Idle, Round, NoForecast
  <2>1. TypeOK'
        BY DEF TypeOK, RequestStates
  <2>2. TimeInv' /\ GaugesFollowState'
        BY DEF TypeOK, TimeInv, GaugesFollowState
  <2>3. ProgressInv' /\ StaleInv'
        BY DEF ProgressInv, StaleInv
  <2> QED BY <2>1, <2>2, <2>3
<1>5. CASE UNCHANGED vars
      BY <1>5 DEF IInv, TypeOK, TimeInv, GaugesFollowState, ProgressInv, StaleInv, Concerns,
                  vars, stateVars, loopVars, webVars
<1> QED BY <1>1, <1>2, <1>3, <1>4, <1>5 DEF Next

LEMMA InvHolds == Spec => []IInv
<1> QED BY InvInit, InvNext, PTL DEF Spec

\* The states keep their types; in particular no signal exceeds MaxReplicas.
THEOREM TypeCorrect == Spec => []TypeOK
<1>1. IInv => TypeOK
      BY DEF IInv
<1> QED BY <1>1, InvHolds, PTL

\* The gauges KEDA reads agree with the state whenever the lock is free.
THEOREM GaugesCorrect == Spec => []GaugesFollowState
<1>1. IInv => GaugesFollowState
      BY DEF IInv
<1> QED BY <1>1, InvHolds, PTL

\* No answer shows a forecast that had failed or expired when its request
\* arrived, unless a newer one has been stored since.
THEOREM FreshServed == Spec => []OnlyFreshIsServed
<1>1. IInv => OnlyFreshIsServed
  <2> SUFFICES ASSUME IInv, NEW r \in Requests, NEW t \in Targets, t \in Shown(r),
                      t \notin fresh[r]
               PROVE  FALSE
      BY DEF OnlyFreshIsServed, Shown, IInv, TypeOK, RequestStates
  <2> USE SettingsAssumption DEF IInv
  <2>1. latest[t].at \in Int /\ request[r].now \in Int
        BY DEF TypeOK, RequestStates, Forecasts, NoForecast
  <2>2. CASE request[r].step \in {"scaling", "valid"}
        BY <2>2 DEF TypeOK, Shown, GaugesFollowState, ProgressInv, StaleInv, Concerns
  <2>3. CASE request[r].step = "answer"
        BY <2>3 DEF Shown, ProgressInv, StaleInv, Concerns
  <2>4. CASE request[r].step = "refresh" /\ request[r].kind = "ready"
        BY <2>1, <2>4 DEF Shown, StillValid, StaleInv, Concerns
  <2> QED BY <2>2, <2>3, <2>4 DEF Shown
<1> QED BY <1>1, InvHolds, PTL
=============================================================================
