--------------------------- MODULE ApprovalProofs ---------------------------
(***************************************************************************)
(* The approval of recommendations for any workloads, analysts and bounds: *)
(* a card is applied at most once or rejected, never with a recommendation *)
(* older than the one it shows, and the last run that pushes decides what  *)
(* the branch holds.                                                       *)
(***************************************************************************)
EXTENDS ApprovalLoop, SequenceTheorems, TLAPS

\* What an analysis reports and a card shows.
Reports == UNION {[S -> 1..MaxVersion] : S \in SUBSET Workloads}

-----------------------------------------------------------------------------
(* The inductive invariant *)

\* A run and a pending run of a workload, and what they have to do with the
\* last dispatch that GitHub accepted.
GroupSound(w) ==
  /\ run[w] = Idle \/ (/\ run[w].step \in {"push", "fetch"}
                       /\ run[w].value \in Values
                       /\ run[w].step = "push" => run[w].tries < PushTries)
  /\ queued[w] = Idle \/ (/\ queued[w].step = "pending"
                          /\ queued[w].value \in Values
                          /\ queued[w].tries = 0
                          /\ last[w] = queued[w].value)
  /\ (queued[w] = Idle /\ run[w] # Idle) => last[w] = run[w].value
  /\ (Settled(w) /\ outcome[w] = "pushed") => git[w] = last[w]

WorkInv == WorkflowTypeOK /\ \A w \in Workloads : GroupSound(w)

\* A report never shows more than has been computed, nor more than the cache
\* remembers of the workload, unless it remembers nothing.
Covered(r) ==
  \A w \in DOMAIN r : /\ r[w] <= version
                      /\ cache[w].version # 0 => r[w] <= cache[w].version

FinInv ==
  /\ cache \in [Workloads -> [version : 0..MaxVersion, pass : BOOLEAN]]
  /\ version \in 0..MaxVersion
  /\ todo \in [Analysts -> SUBSET Workloads]
  /\ results \in [Analysts -> Reports]
  /\ posting \in Analysts \cup {"none"}
  /\ posting # "none" => arrived # <<>>
  /\ arrived \in Seq(Reports)
  /\ cards \in Seq(Reports)
  /\ events \in 0..MaxEvents
  /\ \A w \in Workloads : /\ cache[w].version = 0 => ~cache[w].pass
                          /\ cache[w].version <= version
  /\ \A a \in Analysts : Covered(results[a])
  /\ \A i \in 1..Len(arrived) : Covered(arrived[i])
  /\ \A m \in 1..Len(cards) : Covered(cards[m])

\* The poller waits for the last request of the inbox only, and that one is for
\* the update it is at.
PollInv ==
  /\ clicks \in Seq([card : Nat, button : {"approve", "reject"}])
  /\ \A i \in 1..Len(clicks) : clicks[i].card \in 1..Len(cards)
  /\ offset \in 1..Len(clicks) + 1
  /\ fetched \in 0..Len(clicks)
  /\ confirmed \in 1..offset
  /\ inbox \in Seq([click : Nat, waited : BOOLEAN])
  /\ \A i \in 1..Len(inbox) :
       /\ inbox[i].click \in 1..Len(clicks)
       /\ inbox[i].waited => i = Len(inbox) /\ inbox[i].click = offset

\* A card that is being applied, or of which something has been dispatched, is
\* neither in the registry nor rejected.
CardsInv ==
  /\ registry \subseteq 1..Len(cards)
  /\ rejected \subseteq 1..Len(cards)
  /\ registry \cap rejected = {}
  /\ dispatches \in Seq([card : Nat, workload : Workloads, value : Values])
  /\ \A i \in 1..Len(dispatches) :
       dispatches[i].card \in 1..Len(cards) \ (registry \cup rejected)
  /\ OneDispatchPerCard
  /\ NeverOlderThanShown

\* The workload w of the card in service has not been dispatched yet.
Undispatched(w) ==
  \A i \in 1..Len(dispatches) :
    dispatches[i].card = Clicked.card => dispatches[i].workload # w

ServingInv ==
  /\ serving \in [step : {"free", "next", "dispatch"}, left : SUBSET Workloads,
                  target : Workloads \cup {"none"}, value : Values \cup {NoValue}]
  /\ serving.step # "free" =>
       /\ inbox # <<>>
       /\ Clicked.card \notin registry \cup rejected
       /\ serving.left \subseteq DOMAIN cards[Clicked.card]
       /\ \A w \in serving.left : Undispatched(w)
  /\ serving.step = "dispatch" =>
       /\ serving.target \in DOMAIN cards[Clicked.card] \ serving.left
       /\ Undispatched(serving.target)
       /\ serving.value \in Values
       /\ serving.value # 0 => serving.value >= cards[Clicked.card][serving.target]

ChatInv == PollInv /\ CardsInv /\ ServingInv

LoopInv == WorkInv /\ FinInv /\ ChatInv

-----------------------------------------------------------------------------
(* What a step leaves alone *)

LEMMA EmptyReport == <<>> \in Reports /\ DOMAIN <<>> = {}
<1>1. <<>> \in [{} -> 1..MaxVersion] /\ DOMAIN <<>> = {}
  OBVIOUS
<1> QED BY <1>1 DEF Reports

LEMMA ReportDomain ==
  ASSUME NEW r \in Reports
  PROVE  /\ DOMAIN r \subseteq Workloads
         /\ r \in [DOMAIN r -> 1..MaxVersion]
BY DEF Reports

LEMMA WorkKept ==
  ASSUME WorkInv, UNCHANGED workflowVars
  PROVE  WorkInv'
BY DEF WorkInv, WorkflowTypeOK, GroupSound, Settled, workflowVars

LEMMA FinKept ==
  ASSUME FinInv, UNCHANGED <<finopsVars, arrived, cards>>, events' \in 0..MaxEvents
  PROVE  FinInv'
BY DEF FinInv, Covered, finopsVars

LEMMA ChatKept ==
  ASSUME ChatInv, UNCHANGED <<cards, pollVars, registry, inbox, serving, historyVars>>
  PROVE  ChatInv'
<1>1. PollInv'
  BY DEF ChatInv, PollInv, pollVars
<1>2. CardsInv'
  BY DEF ChatInv, CardsInv, OneDispatchPerCard, NeverOlderThanShown, historyVars
<1>3. ServingInv'
  BY DEF ChatInv, ServingInv, Undispatched, Clicked, pollVars, historyVars
<1> QED BY <1>1, <1>2, <1>3 DEF ChatInv

\* A counted event stays in its bound.
LEMMA Counted ==
  ASSUME FinInv, Event
  PROVE  events' \in 0..MaxEvents
BY LoopAssumption DEF FinInv, Event

LEMMA NotCounted ==
  ASSUME FinInv, UNCHANGED events
  PROVE  events' \in 0..MaxEvents
BY DEF FinInv

\* The card in service stays the same while the inbox keeps its head.
LEMMA ServingKept ==
  ASSUME ServingInv, UNCHANGED <<registry, rejected, dispatches, cards, serving>>,
         inbox # <<>> => inbox' # <<>> /\ Clicked'.card = Clicked.card
  PROVE  ServingInv'
BY DEF ServingInv, Undispatched

-----------------------------------------------------------------------------
(* The workflow runs *)

LEMMA DispatchKeeps ==
  ASSUME WorkInv, NEW w \in Workloads, NEW v \in Values, Dispatch(w, v)
  PROVE  WorkInv'
<1>1. /\ 0 \in 0..PushTries /\ v \in 0..NoValue /\ git[w] \in 0..NoValue
      /\ Idle \in Runs
  BY WorkflowAssumption DEF WorkInv, WorkflowTypeOK, Values, NoValue, Initial, Idle, Runs
<1>2. WorkflowTypeOK'
  BY <1>1 DEF WorkInv, WorkflowTypeOK, Dispatch, Runs, Idle
<1>3. ASSUME NEW u \in Workloads
      PROVE  GroupSound(u)'
  <2>1. GroupSound(u)
    BY DEF WorkInv
  <2>2. CASE u = w
    <3>1. /\ queued'[u].step = "pending" /\ queued'[u].value = v /\ queued'[u].tries = 0
          /\ last'[u] = v /\ queued'[u] # Idle
      BY <2>2 DEF WorkInv, WorkflowTypeOK, Dispatch, Idle, Runs
    <3> QED BY <2>1, <2>2, <3>1 DEF GroupSound, Settled, Dispatch
  <2>3. CASE u # w
    BY <2>1, <2>3 DEF GroupSound, Settled, Dispatch, WorkInv, WorkflowTypeOK
  <2> QED BY <2>2, <2>3
<1> QED BY <1>2, <1>3 DEF WorkInv

\* A commit changes nothing of the other runs but that their checkout is old.
LEMMA BehindKeeps ==
  ASSUME NEW runs \in [Workloads -> Runs], NEW w \in Workloads,
         \A u \in Workloads : runs[u] = Idle \/ runs[u].step # "none"
  PROVE  /\ Behind(runs, w) \in [Workloads -> Runs]
         /\ \A u \in Workloads :
              LET b == Behind(runs, w)[u] IN
              /\ b = Idle <=> runs[u] = Idle
              /\ b.step = runs[u].step /\ b.value = runs[u].value /\ b.tries = runs[u].tries
<1> SUFFICES ASSUME NEW u \in Workloads
             PROVE  LET b == Behind(runs, w)[u] IN
                    /\ b \in Runs
                    /\ b = Idle <=> runs[u] = Idle
                    /\ b.step = runs[u].step /\ b.value = runs[u].value
                    /\ b.tries = runs[u].tries
  BY DEF Behind
<1> DEFINE old == [runs[u] EXCEPT !.current = FALSE]
<1>1. /\ old \in Runs
      /\ old.step = runs[u].step /\ old.value = runs[u].value /\ old.tries = runs[u].tries
  BY runs[u] \in Runs DEF Runs
<1>2. runs[u] # Idle => old # Idle
  BY <1>1 DEF Idle
<1>3. Behind(runs, w)[u] \in {runs[u], old} /\ (runs[u] = Idle => Behind(runs, w)[u] = runs[u])
  BY DEF Behind
<1> QED BY <1>1, <1>2, <1>3

LEMMA StartRunKeeps ==
  ASSUME WorkInv, NEW w \in Workloads, StartRun(w)
  PROVE  WorkInv'
<1>1. Idle \in Runs
  BY WorkflowAssumption DEF Idle, Runs, NoValue
<1>2. WorkflowTypeOK'
  <2>1. queued[w] \in Runs /\ [queued[w] EXCEPT !.step = "push"] \in Runs
    BY DEF WorkInv, WorkflowTypeOK, Runs
  <2> QED BY <1>1, <2>1 DEF WorkInv, WorkflowTypeOK, StartRun, EndRun
<1>3. ASSUME NEW u \in Workloads
      PROVE  GroupSound(u)'
  <2>1. GroupSound(u) /\ WorkflowTypeOK
    BY DEF WorkInv
  <2>2. CASE u = w /\ queued[w].base = queued[w].value
    BY <2>1, <2>2 DEF GroupSound, Settled, StartRun, EndRun, WorkflowTypeOK
  <2>3. CASE u = w /\ queued[w].base # queued[w].value
    <3>1. /\ run'[w].step = "push" /\ run'[w].value = queued[w].value
          /\ run'[w].tries = queued[w].tries /\ queued'[w] = Idle /\ run'[w] # Idle
      BY <2>1, <2>3 DEF StartRun, WorkflowTypeOK, Runs, Idle
    <3> QED
      BY <2>1, <2>3, <3>1, WorkflowAssumption DEF GroupSound, Settled, StartRun
  <2>4. CASE u # w
    BY <2>1, <2>4 DEF GroupSound, Settled, StartRun, EndRun, WorkflowTypeOK
  <2> QED BY <2>2, <2>3, <2>4
<1> QED BY <1>2, <1>3 DEF WorkInv

LEMMA PushKeeps ==
  ASSUME WorkInv, NEW w \in Workloads, Push(w)
  PROVE  WorkInv'
<1>1. /\ WorkflowTypeOK /\ Idle \in Runs /\ run[w] \in Runs
      /\ run[w] # Idle /\ run[w].value \in Values /\ run[w].tries < PushTries
  BY WorkflowAssumption DEF WorkInv, WorkflowTypeOK, GroupSound, Push, Idle, Runs, NoValue
<1>a. \A u \in Workloads : /\ run[u] = Idle \/ run[u].step # "none"
                           /\ queued[u] = Idle \/ queued[u].step # "none"
  BY DEF WorkInv, GroupSound
<1>b. run \in [Workloads -> Runs] /\ queued \in [Workloads -> Runs]
  BY <1>1 DEF WorkflowTypeOK
<1>2. CASE run[w].current
  <2>1. /\ git' = [git EXCEPT ![w] = run[w].value]
        /\ run' = [Behind(run, w) EXCEPT ![w] = Idle]
        /\ queued' = Behind(queued, w)
        /\ outcome' = [outcome EXCEPT ![w] = "pushed"]
        /\ UNCHANGED last
    BY <1>2 DEF Push
  <2>2. run[w].value \in 0..Initial
    BY <1>1, WorkflowAssumption DEF Values, Initial
  <2>3. WorkflowTypeOK'
    BY <1>1, <1>a, <1>b, <2>1, <2>2, BehindKeeps DEF WorkflowTypeOK
  <2>4. ASSUME NEW u \in Workloads
        PROVE  GroupSound(u)'
    <3>1. /\ run'[w] = Idle
          /\ u # w => (run'[u] = Idle <=> run[u] = Idle)
          /\ u # w => run'[u].step = run[u].step /\ run'[u].value = run[u].value
                        /\ run'[u].tries = run[u].tries
          /\ queued'[u] = Idle <=> queued[u] = Idle
          /\ queued'[u].step = queued[u].step /\ queued'[u].value = queued[u].value
          /\ queued'[u].tries = queued[u].tries
      BY <1>a, <1>b, <2>1, BehindKeeps
    <3>2. GroupSound(u)
      BY DEF WorkInv
    <3> QED BY <1>1, <2>1, <3>1, <3>2 DEF GroupSound, Settled, WorkflowTypeOK
  <2> QED BY <2>3, <2>4 DEF WorkInv
<1>3. CASE ~run[w].current
  <2>1. /\ run' = [run EXCEPT ![w] = [run[w] EXCEPT !.step = "fetch", !.tries = @ + 1]]
        /\ UNCHANGED <<git, queued, outcome, last>>
    BY <1>1, <1>3 DEF Push, WorkflowTypeOK, Runs
  <2>2. /\ run'[w] \in Runs /\ run'[w] # Idle /\ run'[w].step = "fetch"
        /\ run'[w].value = run[w].value
    <3> DEFINE r == [run[w] EXCEPT !.step = "fetch", !.tries = @ + 1]
    <3>1. run[w].tries \in 0..PushTries /\ run[w].tries + 1 \in 0..PushTries
      BY <1>1, WorkflowAssumption DEF Runs
    <3>2. r \in Runs /\ r.step = "fetch" /\ r.value = run[w].value
      BY <1>1, <3>1 DEF Runs
    <3> QED BY <1>b, <2>1, <3>2 DEF Idle
  <2>3. WorkflowTypeOK'
    BY <1>1, <2>1, <2>2 DEF WorkflowTypeOK
  <2>4. ASSUME NEW u \in Workloads
        PROVE  GroupSound(u)'
    BY <1>1, <2>1, <2>2 DEF GroupSound, Settled, WorkInv, WorkflowTypeOK
  <2> QED BY <2>3, <2>4 DEF WorkInv
<1> QED BY <1>2, <1>3

LEMMA RebaseKeeps ==
  ASSUME WorkInv, NEW w \in Workloads, Rebase(w)
  PROVE  WorkInv'
<1>1. /\ WorkflowTypeOK /\ Idle \in Runs /\ run[w] \in Runs
      /\ run[w] # Idle /\ run[w].value \in Values /\ run[w].step = "fetch"
  BY WorkflowAssumption DEF WorkInv, WorkflowTypeOK, GroupSound, Rebase, Idle, Runs, NoValue
<1>2. CASE git[w] \notin {run[w].base, run[w].value} \/ run[w].tries = PushTries
  <2>1. EndRun(w, "failed") /\ UNCHANGED <<git, queued, last>>
    BY <1>2 DEF Rebase
  <2> QED BY <1>1, <2>1 DEF EndRun, GroupSound, Settled, WorkInv, WorkflowTypeOK
<1>3. CASE ~(git[w] \notin {run[w].base, run[w].value} \/ run[w].tries = PushTries)
  <2>1. /\ run' = [run EXCEPT ![w] = [run[w] EXCEPT !.step = "push", !.base = git[w],
                                                    !.current = TRUE]]
        /\ UNCHANGED <<git, queued, last, outcome>>
    BY <1>1, <1>3 DEF Rebase, WorkflowTypeOK, Runs
  <2>2. /\ git[w] \in 0..NoValue /\ run[w].tries < PushTries
    <3>1. run[w].tries \in 0..PushTries /\ run[w].tries # PushTries
      BY <1>1, <1>3 DEF Runs
    <3>2. git[w] \in 0..NoValue
      BY <1>1, WorkflowAssumption DEF WorkflowTypeOK, NoValue, Initial
    <3> QED BY <3>1, <3>2, WorkflowAssumption
  <2>3. /\ run'[w] \in Runs /\ run'[w] # Idle /\ run'[w].step = "push"
        /\ run'[w].value = run[w].value /\ run'[w].tries < PushTries
    BY <1>1, <2>1, <2>2 DEF WorkflowTypeOK, Runs, Idle
  <2>4. WorkflowTypeOK'
    BY <1>1, <2>1, <2>3 DEF WorkflowTypeOK
  <2>5. ASSUME NEW u \in Workloads
        PROVE  GroupSound(u)'
    BY <1>1, <2>1, <2>3 DEF GroupSound, Settled, WorkInv, WorkflowTypeOK
  <2> QED BY <2>4, <2>5 DEF WorkInv
<1> QED BY <1>2, <1>3

LEMMA RunFailsKeeps ==
  ASSUME WorkInv, NEW w \in Workloads, RunFails(w)
  PROVE  WorkInv'
<1>1. Idle \in Runs
  BY WorkflowAssumption DEF Idle, Runs, NoValue
<1> QED BY <1>1 DEF RunFails, EndRun, GroupSound, Settled, WorkInv, WorkflowTypeOK

-----------------------------------------------------------------------------
(* Analyses, reports and cards *)

LEMMA StartAnalysisKeeps ==
  ASSUME LoopInv, NEW a \in Analysts, StartAnalysis(a)
  PROVE  LoopInv'
<1>1. FinInv'
  BY DEF LoopInv, FinInv, Covered, StartAnalysis, gatewayVars
<1> QED BY <1>1, WorkKept, ChatKept DEF LoopInv, StartAnalysis, gatewayVars

\* A later computation makes the cache cover no report less.
LEMMA AnalyzeKeeps ==
  ASSUME LoopInv, NEW a \in Analysts, NEW w \in Workloads, Analyze(a, w)
  PROVE  LoopInv'
<1>1. PICK pass \in BOOLEAN :
        /\ Remember(w, pass)
        /\ results' = IF pass
             THEN [results EXCEPT ![a] = [u \in DOMAIN results[a] \cup {w} |->
                                            IF u = w THEN version + 1 ELSE results[a][u]]]
             ELSE results
  BY DEF Analyze, LoopInv, FinInv
<1>2. /\ FinInv /\ version \in Nat /\ version' = version + 1
      /\ version' \in 1..MaxVersion
      /\ todo' = [todo EXCEPT ![a] = @ \ {w}]
      /\ UNCHANGED <<posting, cards, arrived, events>>
  BY WorkflowAssumption DEF Analyze, LoopInv, FinInv, gatewayVars
<1>3. cache' = [cache EXCEPT ![w] = [version |-> version', pass |-> pass]]
  BY <1>1, <1>2 DEF Remember
<1>4. cache' \in [Workloads -> [version : 0..MaxVersion, pass : BOOLEAN]]
  BY <1>2, <1>3 DEF FinInv
<1>5. ASSUME NEW u \in Workloads
      PROVE  /\ cache'[u].version = 0 => ~cache'[u].pass
             /\ cache'[u].version <= version'
  <2>1. CASE u = w
    BY <2>1, <1>2, <1>3 DEF FinInv
  <2>2. CASE u # w
    BY <2>2, <1>2, <1>3 DEF FinInv
  <2> QED BY <2>1, <2>2
<1>6. ASSUME NEW r \in Reports, Covered(r)
      PROVE  Covered(r)'
  <2> SUFFICES ASSUME NEW u \in DOMAIN r
               PROVE  r[u] <= version' /\ (cache'[u].version # 0 => r[u] <= cache'[u].version)
    BY DEF Covered
  <2>1. u \in Workloads /\ r[u] \in Nat /\ r[u] <= version
        /\ (cache[u].version # 0 => r[u] <= cache[u].version)
    BY <1>6, ReportDomain DEF Covered
  <2>2. CASE u = w
    BY <2>1, <2>2, <1>2, <1>3 DEF FinInv
  <2>3. CASE u # w
    BY <2>1, <2>3, <1>2, <1>3 DEF FinInv
  <2> QED BY <2>2, <2>3
<1>7. results' \in [Analysts -> Reports] /\ \A b \in Analysts : Covered(results[b])'
  <2> DEFINE more == [u \in DOMAIN results[a] \cup {w} |->
                        IF u = w THEN version' ELSE results[a][u]]
  <2>1. \A b \in Analysts : results[b] \in Reports /\ Covered(results[b])
    BY <1>2 DEF FinInv
  <2>2. more \in [DOMAIN results[a] \cup {w} -> 1..MaxVersion]
    BY <2>1, <1>2, ReportDomain
  <2>3. more \in Reports
    <3>1. DOMAIN results[a] \cup {w} \in SUBSET Workloads
      BY <2>1, ReportDomain
    <3> QED BY <3>1, <2>2 DEF Reports
  <2>4. results' = results \/ results' = [results EXCEPT ![a] = more]
    BY <1>1, <1>2
  <2>5. Covered(results[a])'  \/ results' # results
    BY <2>1, <1>6 DEF Covered
  <2>6. ASSUME NEW u \in DOMAIN more
        PROVE  more[u] <= version' /\ (cache'[u].version # 0 => more[u] <= cache'[u].version)
    <3>1. CASE u = w
      BY <3>1, <1>2, <1>3 DEF FinInv
    <3>2. CASE u # w
      <4>1. u \in DOMAIN results[a] /\ u \in Workloads /\ more[u] = results[a][u]
            /\ results[a][u] \in Nat
        BY <3>2, <2>1, ReportDomain
      <4>2. results[a][u] <= version /\ (cache[u].version # 0 => results[a][u] <= cache[u].version)
        BY <4>1, <2>1 DEF Covered
      <4> QED BY <4>1, <4>2, <3>2, <1>2, <1>3 DEF FinInv
    <3> QED BY <3>1, <3>2
  <2> HIDE DEF more
  <2>7. CASE results' = results
    <3>1. \A b \in Analysts : results'[b] = results[b]
      BY <2>7
    <3> QED BY <3>1, <2>1, <2>7, <1>2, <1>6 DEF FinInv, Covered
  <2>8. CASE results' = [results EXCEPT ![a] = more]
    <3>1. results' \in [Analysts -> Reports]
      BY <2>3, <2>8, <1>2 DEF FinInv
    <3>2. ASSUME NEW b \in Analysts
          PROVE  Covered(results[b])'
      <4>1. CASE b = a
        BY <4>1, <2>6, <2>8, <1>2 DEF Covered, FinInv
      <4>2. CASE b # a
        <5>1. results'[b] = results[b]
          BY <4>2, <2>8, <1>2 DEF FinInv
        <5> QED BY <5>1, <2>1, <1>6 DEF Covered
      <4> QED BY <4>1, <4>2
    <3> QED BY <3>1, <3>2
  <2> QED BY <2>4, <2>7, <2>8
<1>8. /\ \A i \in 1..Len(arrived) : Covered(arrived[i])'
      /\ \A m \in 1..Len(cards) : Covered(cards[m])'
  <2>1. \A i \in 1..Len(arrived) : arrived[i] \in Reports /\ Covered(arrived[i])
    BY <1>2, ElementOfSeq DEF FinInv
  <2>2. \A m \in 1..Len(cards) : cards[m] \in Reports /\ Covered(cards[m])
    BY <1>2, ElementOfSeq DEF FinInv
  <2> QED BY <2>1, <2>2, <1>2, <1>6 DEF Covered
<1>9. todo' \in [Analysts -> SUBSET Workloads]
  BY <1>2 DEF FinInv
<1>10. FinInv'
  BY <1>2, <1>4, <1>5, <1>7, <1>8, <1>9 DEF FinInv
<1> QED BY <1>10, WorkKept, ChatKept DEF LoopInv, Analyze, gatewayVars

LEMMA AnalysisFailsKeeps ==
  ASSUME LoopInv, NEW a \in Analysts, NEW w \in Workloads, AnalysisFails(a, w)
  PROVE  LoopInv'
<1>1. FinInv'
  BY Counted DEF LoopInv, FinInv, Covered, AnalysisFails, gatewayVars
<1> QED BY <1>1, WorkKept, ChatKept DEF LoopInv, AnalysisFails, gatewayVars

LEMMA SendReportKeeps ==
  ASSUME LoopInv, NEW a \in Analysts, SendReport(a)
  PROVE  LoopInv'
<1>1. /\ FinInv /\ posting' = a /\ arrived' = Append(arrived, results[a])
      /\ results' = [results EXCEPT ![a] = <<>>]
      /\ UNCHANGED <<cache, version, todo, cards, events>>
  BY DEF SendReport, LoopInv
<1>2. results[a] \in Reports /\ arrived' \in Seq(Reports) /\ arrived' # <<>>
  <2>1. results[a] \in Reports /\ arrived \in Seq(Reports)
    BY <1>1 DEF FinInv
  <2>2. arrived' \in Seq(Reports) /\ Len(arrived') = Len(arrived) + 1
    BY <2>1, <1>1
  <2> QED BY <2>1, <2>2
<1>3. results' \in [Analysts -> Reports] /\ \A b \in Analysts : Covered(results[b])'
  BY <1>1, EmptyReport DEF FinInv, Covered
<1>4. ASSUME NEW i \in 1..Len(arrived')
      PROVE  Covered(arrived[i])'
  <2>1. arrived'[i] = IF i = Len(arrived) + 1 THEN results[a] ELSE arrived[i]
    BY <1>1 DEF FinInv
  <2>2. i = Len(arrived) + 1 \/ i \in 1..Len(arrived)
    BY <1>1 DEF FinInv
  <2> QED BY <2>1, <2>2, <1>1 DEF FinInv, Covered
<1>5. FinInv'
  BY <1>1, <1>2, <1>3, <1>4 DEF FinInv, Covered
<1> QED BY <1>5, WorkKept, ChatKept DEF LoopInv, SendReport

LEMMA SendTimesOutKeeps ==
  ASSUME LoopInv, SendTimesOut
  PROVE  LoopInv'
<1>1. FinInv'
  BY DEF LoopInv, FinInv, Covered, SendTimesOut, gatewayVars
<1> QED BY <1>1, WorkKept, ChatKept DEF LoopInv, SendTimesOut, gatewayVars

LEMMA ShowCardKeeps ==
  ASSUME LoopInv, ShowCard
  PROVE  LoopInv'
<1>1. /\ FinInv /\ ChatInv /\ arrived # <<>> /\ serving = Free
      /\ arrived' = Tail(arrived) /\ cards' = Append(cards, Head(arrived))
      /\ posting' = IF Len(arrived) = 1 THEN "none" ELSE posting
      /\ UNCHANGED <<cache, version, todo, results, pollVars, inbox, serving, historyVars>>
      /\ registry' \in {registry, registry \cup {Len(cards) + 1}}
      /\ Event \/ UNCHANGED events
  BY DEF ShowCard, LoopInv
<1>2. /\ Head(arrived) = arrived[1] /\ Head(arrived) \in Reports /\ Len(arrived) \in Nat
      /\ Len(arrived) # 0 /\ 1 \in 1..Len(arrived)
      /\ arrived' \in Seq(Reports) /\ Len(arrived') = Len(arrived) - 1
      /\ \A i \in 1..Len(arrived') : i + 1 \in 1..Len(arrived) /\ arrived'[i] = arrived[i + 1]
  BY <1>1 DEF FinInv
<1>3. /\ cards' \in Seq(Reports) /\ Len(cards) \in Nat /\ Len(cards') = Len(cards) + 1
      /\ \A m \in 1..Len(cards) : cards'[m] = cards[m]
      /\ cards'[Len(cards) + 1] = arrived[1]
  BY <1>1, <1>2 DEF FinInv
<1>4. FinInv'
  <2>1. \A i \in 1..Len(arrived') : Covered(arrived[i])'
    BY <1>1, <1>2 DEF FinInv, Covered
  <2>2. ASSUME NEW m \in 1..Len(cards')
        PROVE  Covered(cards[m])'
    <3>1. m \in 1..Len(cards) \/ m = Len(cards) + 1
      BY <1>3
    <3> QED BY <3>1, <1>1, <1>2, <1>3 DEF FinInv, Covered
  <2>3. events' \in 0..MaxEvents
    BY <1>1, Counted, NotCounted
  <2>4. posting' # "none" => arrived' # <<>>
    <3>1. Len(arrived) # 1 => Len(arrived') # 0
      BY <1>2
    <3>2. Len(<<>>) = 0
      OBVIOUS
    <3> QED BY <3>1, <3>2, <1>1
  <2>5. posting' \in Analysts \cup {"none"}
    BY <1>1 DEF FinInv
  <2>6. \A a \in Analysts : Covered(results[a])'
    BY <1>1 DEF FinInv, Covered
  <2> QED BY <2>1, <2>2, <2>3, <2>4, <2>5, <2>6, <1>1, <1>2, <1>3 DEF FinInv
<1>5. PollInv'
  BY <1>1, <1>3 DEF ChatInv, PollInv, pollVars
<1>6. CardsInv'
  <2>1. /\ registry' \subseteq 1..Len(cards') /\ rejected' \subseteq 1..Len(cards')
        /\ registry' \cap rejected' = {}
    BY <1>1, <1>3 DEF ChatInv, CardsInv, historyVars
  <2>2. \A i \in 1..Len(dispatches) :
          dispatches[i].card \in 1..Len(cards') \ (registry' \cup rejected')
    BY <1>1, <1>3 DEF ChatInv, CardsInv, historyVars
  <2>3. NeverOlderThanShown'
    BY <1>1, <1>3 DEF ChatInv, CardsInv, historyVars, NeverOlderThanShown
  <2> QED BY <2>1, <2>2, <2>3, <1>1 DEF ChatInv, CardsInv, historyVars, OneDispatchPerCard
<1>7. ServingInv'
  BY <1>1 DEF ChatInv, ServingInv, Free
<1> QED BY <1>4, <1>5, <1>6, <1>7, WorkKept DEF LoopInv, ChatInv, ShowCard

LEMMA ExpireKeeps ==
  ASSUME LoopInv, NEW w \in Workloads, Expire(w)
  PROVE  LoopInv'
<1>1. /\ FinInv /\ cache' = [cache EXCEPT ![w] = None]
      /\ UNCHANGED <<version, todo, results, posting, cards, arrived>>
      /\ events' \in 0..MaxEvents
  BY Counted DEF LoopInv, Expire, gatewayVars
<1>2. None \in [version : 0..MaxVersion, pass : BOOLEAN] /\ None.version = 0 /\ ~None.pass
  BY WorkflowAssumption DEF None
<1>3. ASSUME NEW r \in Reports, Covered(r)
      PROVE  Covered(r)'
  BY <1>1, <1>2, <1>3, ReportDomain DEF Covered, FinInv
<1>4. /\ \A a \in Analysts : Covered(results[a])'
      /\ \A i \in 1..Len(arrived) : Covered(arrived[i])'
      /\ \A m \in 1..Len(cards) : Covered(cards[m])'
  <2>1. /\ \A a \in Analysts : results[a] \in Reports /\ Covered(results[a])
        /\ \A i \in 1..Len(arrived) : arrived[i] \in Reports /\ Covered(arrived[i])
        /\ \A m \in 1..Len(cards) : cards[m] \in Reports /\ Covered(cards[m])
    BY <1>1, ElementOfSeq DEF FinInv
  <2> QED BY <2>1, <1>1, <1>3 DEF Covered
<1>5. \A u \in Workloads : cache'[u].version = 0 => ~cache'[u].pass
  BY <1>1, <1>2 DEF FinInv
<1>6. \A u \in Workloads : cache'[u].version <= version'
  BY <1>1, <1>2 DEF FinInv
<1>7. cache' \in [Workloads -> [version : 0..MaxVersion, pass : BOOLEAN]]
  BY <1>1, <1>2 DEF FinInv
<1>8. FinInv'
  BY <1>1, <1>4, <1>5, <1>6, <1>7 DEF FinInv
<1> QED BY <1>8, WorkKept, ChatKept DEF LoopInv, Expire, gatewayVars

LEMMA RestartFinopsKeeps ==
  ASSUME LoopInv, RestartFinops
  PROVE  LoopInv'
<1>1. /\ FinInv /\ cache' = [w \in Workloads |-> None]
      /\ results' = [a \in Analysts |-> <<>>] /\ todo' = [a \in Analysts |-> {}]
      /\ posting' = "none" /\ UNCHANGED <<version, cards, arrived>>
      /\ events' \in 0..MaxEvents
  BY Counted DEF LoopInv, RestartFinops, gatewayVars
<1>2. /\ None \in [version : 0..MaxVersion, pass : BOOLEAN]
      /\ \A w \in Workloads : cache'[w].version = 0 /\ ~cache'[w].pass
  BY <1>1, WorkflowAssumption DEF None
<1>3. ASSUME NEW r \in Reports, Covered(r)
      PROVE  Covered(r)'
  BY <1>1, <1>2, <1>3, ReportDomain DEF Covered
<1>4. /\ \A i \in 1..Len(arrived) : arrived[i] \in Reports /\ Covered(arrived[i])
      /\ \A m \in 1..Len(cards) : cards[m] \in Reports /\ Covered(cards[m])
  BY <1>1, ElementOfSeq DEF FinInv
<1>5. /\ \A i \in 1..Len(arrived) : Covered(arrived[i])'
      /\ \A m \in 1..Len(cards) : Covered(cards[m])'
  BY <1>1, <1>3, <1>4 DEF Covered
<1>6. \A a \in Analysts : Covered(results[a])'
  BY <1>1, EmptyReport DEF Covered
<1>7. FinInv'
  BY <1>1, <1>2, <1>5, <1>6, EmptyReport DEF FinInv
<1> QED BY <1>7, WorkKept, ChatKept DEF LoopInv, RestartFinops, gatewayVars

-----------------------------------------------------------------------------
(* Telegram and the poller *)

LEMMA ClickKeeps ==
  ASSUME LoopInv, NEW m \in DOMAIN cards, NEW b \in {"approve", "reject"}, Click(m, b)
  PROVE  LoopInv'
<1>1. /\ PollInv /\ CardsInv /\ ServingInv /\ m \in 1..Len(cards) /\ m \in Nat
      /\ clicks' = Append(clicks, [card |-> m, button |-> b])
      /\ UNCHANGED <<cards, offset, fetched, confirmed, registry, inbox, serving, dispatches,
                     rejected>>
  BY DEF LoopInv, ChatInv, FinInv, Click, gatewayVars, historyVars
<1>2. [card |-> m, button |-> b] \in [card : Nat, button : {"approve", "reject"}]
  BY <1>1
<1>3. /\ clicks' \in Seq([card : Nat, button : {"approve", "reject"}])
      /\ Len(clicks) \in Nat /\ Len(clicks') = Len(clicks) + 1
      /\ \A i \in 1..Len(clicks) : clicks'[i] = clicks[i]
      /\ clicks'[Len(clicks) + 1].card = m
  BY <1>1, <1>2 DEF PollInv
<1>4. PollInv'
  <2>1. \A i \in 1..Len(clicks') : clicks'[i].card \in 1..Len(cards')
    BY <1>1, <1>3 DEF PollInv
  <2> QED BY <2>1, <1>1, <1>3 DEF PollInv
<1>5. ServingInv'
  <2>1. inbox # <<>> => Clicked'.card = Clicked.card
    BY <1>1, <1>3, 1 \in 1..Len(inbox) \/ inbox = <<>> DEF Clicked, PollInv
  <2> QED BY <2>1, <1>1, ServingKept
<1>6. CardsInv'
  BY <1>1 DEF CardsInv, OneDispatchPerCard, NeverOlderThanShown
<1> QED BY <1>4, <1>5, <1>6, WorkKept, FinKept, NotCounted
        DEF LoopInv, ChatInv, Click, gatewayVars

LEMMA GetUpdatesKeeps ==
  ASSUME LoopInv, GetUpdates
  PROVE  LoopInv'
<1>1. /\ PollInv /\ CardsInv /\ ServingInv
      /\ confirmed' = offset /\ fetched' = Len(clicks)
      /\ UNCHANGED <<cards, clicks, offset, registry, inbox, serving, dispatches, rejected>>
  BY DEF LoopInv, ChatInv, GetUpdates, gatewayVars, historyVars
<1>2. PollInv'
  BY <1>1 DEF PollInv
<1>3. ServingInv'
  BY <1>1, ServingKept DEF Clicked
<1>4. CardsInv'
  BY <1>1 DEF CardsInv, OneDispatchPerCard, NeverOlderThanShown
<1> QED BY <1>2, <1>3, <1>4, WorkKept, FinKept, NotCounted
        DEF LoopInv, ChatInv, GetUpdates, gatewayVars

\* Nobody is waited for, so the new request is the only one that is.
LEMMA PostKeeps ==
  ASSUME LoopInv, Post
  PROVE  LoopInv'
<1>1. /\ PollInv /\ CardsInv /\ ServingInv /\ ~Waiting /\ offset <= fetched
      /\ inbox' = Append(inbox, [click |-> offset, waited |-> TRUE])
      /\ UNCHANGED <<cards, clicks, offset, fetched, confirmed, registry, serving, dispatches,
                     rejected>>
  BY DEF LoopInv, ChatInv, Post, pollVars, historyVars
<1>2. /\ inbox \in Seq([click : Nat, waited : BOOLEAN]) /\ Len(inbox) \in Nat
      /\ offset \in 1..Len(clicks)
  BY <1>1 DEF PollInv
<1>3. [click |-> offset, waited |-> TRUE] \in [click : Nat, waited : BOOLEAN]
  BY <1>2
<1>4. /\ inbox' \in Seq([click : Nat, waited : BOOLEAN]) /\ Len(inbox') = Len(inbox) + 1
      /\ \A i \in 1..Len(inbox) : inbox'[i] = inbox[i]
      /\ inbox'[Len(inbox) + 1].click = offset
  BY <1>1, <1>2, <1>3
<1>5. ASSUME NEW i \in 1..Len(inbox')
      PROVE  /\ inbox'[i].click \in 1..Len(clicks)
             /\ inbox'[i].waited => i = Len(inbox') /\ inbox'[i].click = offset
  <2>1. CASE i = Len(inbox) + 1
    BY <2>1, <1>2, <1>4
  <2>2. CASE i # Len(inbox) + 1
    <3>1. i \in 1..Len(inbox) /\ inbox'[i] = inbox[i]
      BY <2>2, <1>2, <1>4
    <3>2. inbox[i].waited => i = Len(inbox)
      BY <3>1, <1>1 DEF PollInv
    <3>3. ~inbox[i].waited
      BY <3>1, <3>2, <1>1 DEF Waiting
    <3> QED BY <3>1, <3>3, <1>1 DEF PollInv
  <2> QED BY <2>1, <2>2
<1>6. PollInv'
  BY <1>1, <1>4, <1>5 DEF PollInv
<1>7. ServingInv'
  <2>1. inbox # <<>> => 1 \in 1..Len(inbox) /\ inbox' # <<>>
    BY <1>2, <1>4
  <2>2. inbox # <<>> => Clicked'.card = Clicked.card
    BY <2>1, <1>1, <1>4 DEF Clicked
  <2> QED BY <2>1, <2>2, <1>1, ServingKept
<1>8. CardsInv'
  BY <1>1 DEF CardsInv, OneDispatchPerCard, NeverOlderThanShown
<1> QED BY <1>6, <1>7, <1>8, WorkKept, FinKept, NotCounted DEF LoopInv, ChatInv, Post

LEMMA PostTimesOutKeeps ==
  ASSUME LoopInv, PostTimesOut
  PROVE  LoopInv'
<1>1. /\ PollInv /\ CardsInv /\ ServingInv /\ Waiting
      /\ inbox' = [inbox EXCEPT ![Len(inbox)].waited = FALSE]
      /\ fetched' = offset - 1
      /\ UNCHANGED <<cards, clicks, offset, confirmed, registry, serving, dispatches, rejected>>
  BY DEF LoopInv, ChatInv, PostTimesOut, historyVars
<1>2. /\ inbox \in Seq([click : Nat, waited : BOOLEAN]) /\ inbox # <<>>
      /\ Len(inbox) \in 1..Len(inbox) /\ 1 \in 1..Len(inbox)
  BY <1>1 DEF PollInv, Waiting
<1>3. [inbox[Len(inbox)] EXCEPT !.waited = FALSE] \in [click : Nat, waited : BOOLEAN]
  <2>1. inbox[Len(inbox)] \in [click : Nat, waited : BOOLEAN]
    BY <1>2, ElementOfSeq
  <2> QED BY <2>1
<1>4. /\ inbox' \in Seq([click : Nat, waited : BOOLEAN]) /\ Len(inbox') = Len(inbox)
      /\ \A i \in 1..Len(inbox) : inbox'[i].click = inbox[i].click
      /\ \A i \in 1..Len(inbox) : inbox'[i].waited => inbox[i].waited /\ i # Len(inbox)
  <2>1. \A i \in 1..Len(inbox) : inbox[i] \in [click : Nat, waited : BOOLEAN]
    BY <1>2, ElementOfSeq
  <2>2. \A i \in 1..Len(inbox) : inbox'[i].click = inbox[i].click
    BY <2>1, <1>1, <1>2
  <2>3. \A i \in 1..Len(inbox) : inbox'[i].waited => inbox[i].waited /\ i # Len(inbox)
    BY <2>1, <1>1, <1>2
  <2> QED BY <2>1, <2>2, <2>3, <1>1, <1>2, <1>3
<1>5. PollInv'
  BY <1>1, <1>2, <1>4 DEF PollInv
<1>6. ServingInv'
  <2>1. inbox' # <<>>
    BY <1>2, <1>4
  <2>2. Head(inbox') = inbox'[1] /\ Head(inbox) = inbox[1]
    BY <2>1, <1>2, <1>4
  <2>3. inbox'[1].click = inbox[1].click
    <3>1. \A i \in 1..Len(inbox) : inbox'[i].click = inbox[i].click
      BY <1>4
    <3>2. 1 \in 1..Len(inbox)
      BY <1>2
    <3> QED BY <3>1, <3>2
  <2>4. Clicked'.card = Clicked.card
    BY <2>2, <2>3, <1>1 DEF Clicked
  <2> QED BY <2>1, <2>4, <1>1, ServingKept
<1>7. CardsInv'
  BY <1>1 DEF CardsInv, OneDispatchPerCard, NeverOlderThanShown
<1> QED BY <1>5, <1>6, <1>7, WorkKept, FinKept, NotCounted DEF LoopInv, ChatInv, PostTimesOut

-----------------------------------------------------------------------------
(* The handler of a click *)

\* The card of the request in service is in the chat.
LEMMA ClickedIsACard ==
  ASSUME PollInv, inbox # <<>>
  PROVE  Clicked.card \in 1..Len(cards)
<1>1. 1 \in 1..Len(inbox) /\ Head(inbox) = inbox[1]
  BY DEF PollInv
<1> QED BY <1>1 DEF PollInv, Clicked

\* Only the last request is waited for: when it is answered the inbox is empty.
LEMMA AnswerKeeps ==
  ASSUME PollInv, inbox # <<>>, Answer
  PROVE  PollInv' /\ serving'.step = "free"
<1>1. /\ inbox' = Tail(inbox) /\ serving' = Free
      /\ offset' = IF Head(inbox).waited THEN Head(inbox).click + 1 ELSE offset
      /\ UNCHANGED <<cards, clicks, fetched, confirmed>>
  BY DEF Answer
<1>2. /\ Len(inbox) \in Nat /\ 1 \in 1..Len(inbox) /\ Head(inbox) = inbox[1]
      /\ inbox' \in Seq([click : Nat, waited : BOOLEAN]) /\ Len(inbox') = Len(inbox) - 1
      /\ \A i \in 1..Len(inbox') : i + 1 \in 1..Len(inbox) /\ inbox'[i] = inbox[i + 1]
  <2>1. inbox \in Seq([click : Nat, waited : BOOLEAN]) /\ inbox # <<>>
    BY DEF PollInv
  <2>2. /\ Head(inbox) = inbox[1] /\ 1 \in 1..Len(inbox)
        /\ Tail(inbox) \in Seq([click : Nat, waited : BOOLEAN])
        /\ Len(Tail(inbox)) = Len(inbox) - 1 /\ Len(inbox) \in Nat
    BY <2>1
  <2>3. \A i \in 1..Len(Tail(inbox)) :
          i + 1 \in 1..Len(inbox) /\ Tail(inbox)[i] = inbox[i + 1]
    BY <2>1, <2>2
  <2> QED BY <2>2, <2>3, <1>1
<1>3. CASE Head(inbox).waited
  <2>1. Len(inbox) = 1 /\ Head(inbox).click = offset /\ offset \in 1..Len(clicks)
    BY <1>2, <1>3 DEF PollInv
  <2>2. offset' = offset + 1 /\ Len(inbox') = 0
    BY <1>1, <1>2, <1>3, <2>1
  <2>3. offset' \in 1..Len(clicks) + 1 /\ confirmed \in 1..offset'
    BY <2>1, <2>2 DEF PollInv
  <2>4. \A i \in 1..Len(inbox') : FALSE
    BY <2>2
  <2>5. PollInv'
    BY <1>1, <1>2, <2>3, <2>4 DEF PollInv
  <2> QED BY <2>5, <1>1 DEF Free
<1>4. CASE ~Head(inbox).waited
  <2>1. offset' = offset
    BY <1>1, <1>4
  <2>2. ASSUME NEW i \in 1..Len(inbox')
        PROVE  /\ inbox'[i].click \in 1..Len(clicks)
               /\ inbox'[i].waited => i = Len(inbox') /\ inbox'[i].click = offset
    <3>1. i + 1 \in 1..Len(inbox) /\ inbox'[i] = inbox[i + 1]
      BY <1>2
    <3>2. /\ inbox[i + 1].click \in 1..Len(clicks)
          /\ inbox[i + 1].waited => i + 1 = Len(inbox) /\ inbox[i + 1].click = offset
      BY <3>1 DEF PollInv
    <3>3. i + 1 = Len(inbox) => i = Len(inbox')
      BY <1>2
    <3> QED BY <3>1, <3>2, <3>3
  <2> QED BY <1>1, <1>2, <2>1, <2>2 DEF PollInv, Free
<1> QED BY <1>3, <1>4

\* A request that ends without a change to cards in the registry.
LEMMA EndKeeps ==
  ASSUME LoopInv, inbox # <<>>, Answer, UNCHANGED <<registry, rejected>>
  PROVE  LoopInv'
<1>1. /\ PollInv /\ CardsInv /\ UNCHANGED <<cards, dispatches>>
  BY DEF LoopInv, ChatInv, Answer
<1>2. PollInv' /\ serving'.step = "free"
  BY <1>1, AnswerKeeps
<1>3. ServingInv'
  BY <1>2 DEF ServingInv, Answer, Free
<1>4. CardsInv'
  BY <1>1 DEF CardsInv, OneDispatchPerCard, NeverOlderThanShown
<1> QED BY <1>2, <1>3, <1>4, WorkKept, FinKept, NotCounted DEF LoopInv, ChatInv, Answer

LEMMA RejectAllKeeps ==
  ASSUME LoopInv, RejectAll
  PROVE  LoopInv'
<1>1. /\ PollInv /\ CardsInv /\ inbox # <<>> /\ Answer /\ Clicked.card \in registry
      /\ registry' = registry \ {Clicked.card} /\ rejected' = rejected \cup {Clicked.card}
      /\ UNCHANGED <<cards, dispatches>>
  BY DEF LoopInv, ChatInv, RejectAll, Answer
<1>2. PollInv' /\ serving'.step = "free"
  BY <1>1, AnswerKeeps
<1>3. ServingInv'
  BY <1>1, <1>2 DEF ServingInv, Answer, Free
<1>4. CardsInv'
  BY <1>1 DEF CardsInv, OneDispatchPerCard, NeverOlderThanShown
<1> QED BY <1>1, <1>2, <1>3, <1>4, WorkKept, FinKept, NotCounted DEF LoopInv, ChatInv, Answer

\* The card leaves the registry before its first workload is looked up, and
\* nothing has been dispatched of a card that was in the registry.
LEMMA ApproveAllKeeps ==
  ASSUME LoopInv, ApproveAll
  PROVE  LoopInv'
<1>1. /\ PollInv /\ CardsInv /\ FinInv /\ inbox # <<>> /\ Clicked.card \in registry
      /\ registry' = registry \ {Clicked.card}
      /\ serving' = [Free EXCEPT !.step = "next", !.left = DOMAIN cards[Clicked.card]]
      /\ UNCHANGED <<cards, dispatches, rejected, clicks, offset, fetched, confirmed, inbox>>
  BY DEF LoopInv, ChatInv, ApproveAll, TakeCard, pollVars, historyVars
<1>2. cards[Clicked.card] \in Reports /\ DOMAIN cards[Clicked.card] \subseteq Workloads
  <2>1. Clicked.card \in 1..Len(cards)
    BY <1>1, ClickedIsACard
  <2>2. cards[Clicked.card] \in Reports
    BY <2>1, <1>1, ElementOfSeq DEF FinInv
  <2> QED BY <2>2, ReportDomain
<1>3. PollInv'
  BY <1>1 DEF PollInv
<1>4. CardsInv'
  BY <1>1 DEF CardsInv, OneDispatchPerCard, NeverOlderThanShown
<1>5. ServingInv'
  <2>1. Clicked' = Clicked
    BY <1>1 DEF Clicked
  <2>2. /\ serving'.step = "next" /\ serving'.left = DOMAIN cards[Clicked.card]
        /\ serving' \in [step : {"free", "next", "dispatch"}, left : SUBSET Workloads,
                         target : Workloads \cup {"none"}, value : Values \cup {NoValue}]
    BY <1>1, <1>2 DEF Free
  <2>3. Clicked.card \notin registry' \cup rejected'
    BY <1>1 DEF CardsInv
  <2>4. \A i \in 1..Len(dispatches) : dispatches[i].card # Clicked.card
    BY <1>1 DEF CardsInv
  <2> QED BY <2>1, <2>2, <2>3, <2>4, <1>1 DEF ServingInv, Undispatched
<1> QED BY <1>3, <1>4, <1>5, WorkKept, FinKept, NotCounted DEF LoopInv, ChatInv, ApproveAll

\* A value is taken: the fallback, or one at least as new as the card's.
LEMMA TakeKeeps ==
  ASSUME LoopInv, NEW w \in Workloads, NEW v \in Values, Take(w, v), events' \in 0..MaxEvents,
         v # 0 => v >= cards[Clicked.card][w]
  PROVE  LoopInv'
<1>1. /\ PollInv /\ CardsInv /\ ServingInv /\ serving.step = "next" /\ w \in serving.left
      /\ serving' = [serving EXCEPT !.step = "dispatch", !.left = @ \ {w}, !.target = w,
                                    !.value = v]
      /\ UNCHANGED <<cards, pollVars, registry, inbox, dispatches, rejected>>
  BY DEF LoopInv, ChatInv, Take, historyVars
<1>2. PollInv'
  BY <1>1 DEF PollInv, pollVars
<1>3. CardsInv'
  BY <1>1 DEF CardsInv, OneDispatchPerCard, NeverOlderThanShown
<1>4. ServingInv'
  <2>1. Clicked' = Clicked
    BY <1>1 DEF Clicked, pollVars
  <2>2. /\ serving'.step = "dispatch" /\ serving'.left = serving.left \ {w}
        /\ serving'.target = w /\ serving'.value = v
        /\ serving' \in [step : {"free", "next", "dispatch"}, left : SUBSET Workloads,
                         target : Workloads \cup {"none"}, value : Values \cup {NoValue}]
    BY <1>1 DEF ServingInv
  <2>3. /\ inbox # <<>> /\ Clicked.card \notin registry \cup rejected
        /\ serving.left \subseteq DOMAIN cards[Clicked.card]
        /\ \A u \in serving.left : Undispatched(u)
    BY <1>1 DEF ServingInv
  <2>4. \A u \in serving.left : Undispatched(u)'
    BY <1>1, <2>1, <2>3 DEF Undispatched
  <2> QED BY <2>1, <2>2, <2>3, <2>4, <1>1 DEF ServingInv
<1> QED BY <1>2, <1>3, <1>4, WorkKept, FinKept DEF LoopInv, ChatInv, Take

\* The first dispatch of this workload for this card, with a value that is not
\* older than the card's.
LEMMA TriggerKeeps ==
  ASSUME LoopInv, Trigger
  PROVE  LoopInv'
<1> DEFINE d == [card |-> Clicked.card, workload |-> serving.target, value |-> serving.value]
<1>1. /\ WorkInv /\ FinInv /\ PollInv /\ CardsInv /\ ServingInv
      /\ serving.step = "dispatch" /\ dispatches' = Append(dispatches, d)
      /\ serving' = [serving EXCEPT !.step = "next", !.target = "none", !.value = NoValue]
      /\ UNCHANGED <<cards, pollVars, registry, inbox, rejected>>
  BY DEF LoopInv, ChatInv, Trigger
<1>2. /\ inbox # <<>> /\ Clicked.card \notin registry \cup rejected
      /\ Clicked.card \in 1..Len(cards) /\ cards[Clicked.card] \in Reports
      /\ serving.target \in DOMAIN cards[Clicked.card] \ serving.left
      /\ serving.left \subseteq DOMAIN cards[Clicked.card]
      /\ serving.value \in Values
      /\ serving.value # 0 => serving.value >= cards[Clicked.card][serving.target]
      /\ Undispatched(serving.target) /\ \A w \in serving.left : Undispatched(w)
  <2>1. inbox # <<>>
    BY <1>1 DEF ServingInv
  <2>2. Clicked.card \in 1..Len(cards)
    BY <2>1, <1>1, ClickedIsACard
  <2>3. cards[Clicked.card] \in Reports
    BY <2>2, <1>1, ElementOfSeq DEF FinInv
  <2> QED BY <2>1, <2>2, <2>3, <1>1 DEF ServingInv
<1>3. serving.target \in Workloads
  BY <1>2, ReportDomain
<1>4. /\ d \in [card : Nat, workload : Workloads, value : Values]
      /\ d.card = Clicked.card /\ d.workload = serving.target /\ d.value = serving.value
  BY <1>2, <1>3
<1>5. /\ dispatches' \in Seq([card : Nat, workload : Workloads, value : Values])
      /\ Len(dispatches) \in Nat /\ Len(dispatches') = Len(dispatches) + 1
      /\ \A i \in 1..Len(dispatches) : dispatches'[i] = dispatches[i]
      /\ dispatches'[Len(dispatches) + 1] = d
      /\ DOMAIN dispatches = 1..Len(dispatches) /\ DOMAIN dispatches' = 1..Len(dispatches')
  <2> HIDE DEF d
  <2>1. dispatches \in Seq([card : Nat, workload : Workloads, value : Values])
    BY <1>1 DEF CardsInv
  <2> QED BY <2>1, <1>1, <1>4
<1> HIDE DEF d
<1>6. \A i \in 1..Len(dispatches') : i \in 1..Len(dispatches) \/ dispatches'[i] = d
  BY <1>5
<1>7. CardsInv'
  <2>1. \A i \in 1..Len(dispatches') :
          dispatches'[i].card \in 1..Len(cards) \ (registry \cup rejected)
    BY <1>1, <1>2, <1>4, <1>5, <1>6 DEF CardsInv
  <2>2. \A i \in 1..Len(dispatches) :
          dispatches[i].card = d.card => dispatches[i].workload # d.workload
    BY <1>2, <1>4 DEF Undispatched
  <2>3. OneDispatchPerCard'
    <3> SUFFICES ASSUME NEW i \in 1..Len(dispatches'), NEW k \in 1..Len(dispatches'),
                        dispatches'[i].card = dispatches'[k].card,
                        dispatches'[i].workload = dispatches'[k].workload
                 PROVE  i = k
      BY <1>5 DEF OneDispatchPerCard
    <3>1. CASE i \in 1..Len(dispatches) /\ k \in 1..Len(dispatches)
      BY <3>1, <1>1, <1>5 DEF CardsInv, OneDispatchPerCard
    <3>2. CASE i \in 1..Len(dispatches) /\ k \notin 1..Len(dispatches)
      BY <3>2, <2>2, <1>5, <1>6
    <3>3. CASE i \notin 1..Len(dispatches) /\ k \in 1..Len(dispatches)
      BY <3>3, <2>2, <1>5, <1>6
    <3>4. CASE i \notin 1..Len(dispatches) /\ k \notin 1..Len(dispatches)
      BY <3>4, <1>5
    <3> QED BY <3>1, <3>2, <3>3, <3>4
  <2>4. NeverOlderThanShown'
    <3> SUFFICES ASSUME NEW i \in 1..Len(dispatches'), dispatches'[i].value # 0
                 PROVE  LET e == dispatches'[i] IN
                        /\ e.workload \in DOMAIN cards[e.card]
                        /\ e.value >= cards[e.card][e.workload]
      BY <1>1, <1>5 DEF NeverOlderThanShown
    <3>1. CASE i \in 1..Len(dispatches)
      BY <3>1, <1>1, <1>5 DEF CardsInv, NeverOlderThanShown
    <3>2. CASE dispatches'[i] = d
      BY <3>2, <1>2, <1>4
    <3> QED BY <3>1, <3>2, <1>6
  <2> QED BY <2>1, <2>3, <2>4, <1>1, <1>5 DEF CardsInv
<1>8. ServingInv'
  <2>1. Clicked' = Clicked
    BY <1>1 DEF Clicked, pollVars
  <2>2. /\ serving'.step = "next" /\ serving'.left = serving.left
        /\ serving' \in [step : {"free", "next", "dispatch"}, left : SUBSET Workloads,
                         target : Workloads \cup {"none"}, value : Values \cup {NoValue}]
    BY <1>1 DEF ServingInv
  <2>3. ASSUME NEW w \in serving.left
        PROVE  Undispatched(w)'
    <3> SUFFICES ASSUME NEW i \in 1..Len(dispatches'), dispatches'[i].card = Clicked.card
                 PROVE  dispatches'[i].workload # w
      BY <2>1 DEF Undispatched
    <3>1. CASE i \in 1..Len(dispatches)
      BY <3>1, <1>2, <1>5 DEF Undispatched
    <3>2. CASE dispatches'[i] = d
      BY <3>2, <1>2, <1>4
    <3> QED BY <3>1, <3>2, <1>6
  <2> QED BY <2>1, <2>2, <2>3, <1>1, <1>2 DEF ServingInv
<1>9. PollInv'
  BY <1>1 DEF PollInv, pollVars
<1>10. WorkInv' /\ events' \in 0..MaxEvents
  <2>1. CASE Dispatch(serving.target, serving.value) /\ UNCHANGED events
    BY <2>1, <1>1, <1>2, <1>3, DispatchKeeps, NotCounted
  <2>2. CASE Event /\ UNCHANGED workflowVars
    BY <2>2, <1>1, WorkKept, Counted
  <2> QED BY <2>1, <2>2 DEF Trigger
<1> QED BY <1>1, <1>7, <1>8, <1>9, <1>10, FinKept DEF LoopInv, ChatInv, Trigger

\* GET /recommendation serves a PASS entry, which no card is ahead of.
LEMMA FetchKeeps ==
  ASSUME LoopInv, NEW w \in Workloads, Fetch(w)
  PROVE  LoopInv'
<1> DEFINE v == IF cache[w].pass THEN cache[w].version ELSE 0
<1>1. /\ FinInv /\ PollInv /\ ServingInv /\ serving.step = "next" /\ w \in serving.left
      /\ Take(w, v) /\ events' \in 0..MaxEvents
  BY NotCounted DEF LoopInv, ChatInv, Fetch, Take
<1>2. v \in Values
  BY <1>1, WorkflowAssumption DEF FinInv, Values
<1>3. Clicked.card \in 1..Len(cards) /\ w \in DOMAIN cards[Clicked.card]
  BY <1>1, ClickedIsACard DEF ServingInv
<1>4. cards[Clicked.card] \in Reports /\ Covered(cards[Clicked.card])
  BY <1>1, <1>3, ElementOfSeq DEF FinInv
<1>5. v # 0 => v >= cards[Clicked.card][w]
  <2>1. v # 0 => cache[w].version # 0 /\ v = cache[w].version
    BY <1>1 DEF FinInv
  <2>2. cards[Clicked.card][w] \in Nat
    BY <1>3, <1>4, ReportDomain
  <2>3. cache[w].version \in Nat
    BY <1>1 DEF FinInv
  <2> QED BY <2>1, <2>2, <2>3, <1>3, <1>4 DEF Covered
<1> QED BY <1>1, <1>2, <1>5, TakeKeeps

LEMMA FetchTimesOutKeeps ==
  ASSUME LoopInv, NEW w \in Workloads, FetchTimesOut(w)
  PROVE  LoopInv'
<1>1. 0 \in Values /\ Take(w, 0)
  BY WorkflowAssumption DEF Values, FetchTimesOut
<1>2. events' \in 0..MaxEvents
  BY Counted, NotCounted DEF FetchTimesOut, LoopInv
<1> QED BY <1>1, <1>2, TakeKeeps

LEMMA RestartGatewayKeeps ==
  ASSUME LoopInv, RestartGateway
  PROVE  LoopInv'
<1>1. /\ FinInv /\ PollInv /\ CardsInv
      /\ registry' = {} /\ arrived' = <<>> /\ posting' = "none" /\ inbox' = <<>>
      /\ serving' = Free /\ offset' = confirmed /\ fetched' = confirmed - 1
      /\ UNCHANGED <<workflowVars, cache, version, todo, results, cards, clicks, confirmed,
                     dispatches, rejected>>
      /\ events' \in 0..MaxEvents
  BY Counted DEF LoopInv, ChatInv, RestartGateway, historyVars
<1>2. /\ arrived' \in Seq(Reports) /\ Len(arrived') = 0
      /\ inbox' \in Seq([click : Nat, waited : BOOLEAN]) /\ Len(inbox') = 0
  BY <1>1
<1>3. FinInv'
  <2>1. /\ \A a \in Analysts : Covered(results[a])'
        /\ \A m \in 1..Len(cards) : Covered(cards[m])'
    BY <1>1 DEF FinInv, Covered
  <2>2. \A i \in 1..Len(arrived') : FALSE
    BY <1>2
  <2> QED BY <1>1, <1>2, <2>1, <2>2 DEF FinInv
<1>4. PollInv'
  <2>1. \A i \in 1..Len(inbox') : FALSE
    BY <1>2
  <2>2. fetched' \in 0..Len(clicks) /\ confirmed \in 1..Len(clicks) + 1
        /\ confirmed \in 1..confirmed
    BY <1>1 DEF PollInv
  <2> QED BY <1>1, <1>2, <2>1, <2>2 DEF PollInv
<1>5. CardsInv'
  BY <1>1 DEF CardsInv, OneDispatchPerCard, NeverOlderThanShown
<1>6. ServingInv'
  BY <1>1 DEF ServingInv, Free
<1> QED BY <1>1, <1>3, <1>4, <1>5, <1>6, WorkKept DEF LoopInv, ChatInv

LEMMA WorkflowStepKeeps ==
  ASSUME LoopInv, WorkflowStep
  PROVE  LoopInv'
<1>1. UNCHANGED <<finopsVars, cards, pollVars, gatewayVars, historyVars>>
  BY DEF WorkflowStep
<1>2. WorkInv' /\ events' \in 0..MaxEvents
  <2>1. PICK w \in Workloads : \/ RunStep(w) /\ UNCHANGED events
                               \/ RunFails(w) /\ Event
    BY DEF WorkflowStep
  <2> QED BY <2>1, StartRunKeeps, PushKeeps, RebaseKeeps, RunFailsKeeps, Counted, NotCounted
          DEF RunStep, LoopInv
<1> QED BY <1>1, <1>2, FinKept, ChatKept DEF LoopInv, gatewayVars

-----------------------------------------------------------------------------
(* The loop *)

LEMMA InitSound == Init => LoopInv
<1> SUFFICES ASSUME Init
             PROVE  LoopInv
  OBVIOUS
<1>1. /\ WorkflowInit /\ cache = [w \in Workloads |-> None] /\ version = 0
      /\ todo = [a \in Analysts |-> {}] /\ results = [a \in Analysts |-> <<>>]
      /\ posting = "none" /\ arrived = <<>> /\ cards = <<>> /\ registry = {}
      /\ clicks = <<>> /\ offset = 1 /\ fetched = 0 /\ confirmed = 1 /\ inbox = <<>>
      /\ serving = Free /\ dispatches = <<>> /\ rejected = {} /\ events = 0
  BY DEF Init
<1>2. WorkInv
  <2>1. Idle \in Runs /\ 0 \in 0..Initial /\ Initial \in 0..Initial
    BY WorkflowAssumption DEF Idle, Runs, NoValue, Initial
  <2> QED BY <1>1, <2>1 DEF WorkInv, WorkflowTypeOK, WorkflowInit, GroupSound
<1>3. Len(<<>>) = 0 /\ \A i \in 1..Len(<<>>) : FALSE
  OBVIOUS
<1>4. FinInv
  <2>1. None \in [version : 0..MaxVersion, pass : BOOLEAN] /\ None.version = 0 /\ ~None.pass
    BY WorkflowAssumption DEF None
  <2>2. \A a \in Analysts : Covered(results[a])
    BY <1>1, EmptyReport DEF Covered
  <2> QED BY <1>1, <1>3, <2>1, <2>2, EmptyReport, WorkflowAssumption, LoopAssumption DEF FinInv
<1>5. PollInv
  BY <1>1, <1>3 DEF PollInv
<1>6. CardsInv
  <2>1. DOMAIN dispatches = {}
    BY <1>1
  <2> QED BY <1>1, <1>3, <2>1 DEF CardsInv, OneDispatchPerCard, NeverOlderThanShown
<1>7. ServingInv
  BY <1>1 DEF ServingInv, Free
<1> QED BY <1>2, <1>4, <1>5, <1>6, <1>7 DEF LoopInv, ChatInv

LEMMA StepSound == LoopInv /\ [Next]_vars => LoopInv'
<1> SUFFICES ASSUME LoopInv, [Next]_vars
             PROVE  LoopInv'
  OBVIOUS
<1>1. CASE FinopsStep
  BY <1>1, StartAnalysisKeeps, SendReportKeeps, AnalyzeKeeps, AnalysisFailsKeeps DEF FinopsStep
<1>2. CASE SendTimesOut
  BY <1>2, SendTimesOutKeeps
<1>3. CASE ShowCard
  BY <1>3, ShowCardKeeps
<1>4. CASE \E m \in DOMAIN cards, b \in {"approve", "reject"} : Click(m, b)
  BY <1>4, ClickKeeps
<1>5. CASE PollerStep \/ PostTimesOut
  BY <1>5, GetUpdatesKeeps, PostKeeps, PostTimesOutKeeps DEF PollerStep
<1>6. CASE HandlerStep
  <2>1. CASE AlreadyHandled
    BY <2>1, EndKeeps DEF AlreadyHandled
  <2>2. CASE RejectAll
    BY <2>2, RejectAllKeeps
  <2>3. CASE ApproveAll
    BY <2>3, ApproveAllKeeps
  <2>4. CASE Trigger
    BY <2>4, TriggerKeeps
  <2>5. CASE Approved
    BY <2>5, EndKeeps DEF Approved, LoopInv, ChatInv, ServingInv
  <2>6. CASE \E w \in Workloads : Fetch(w) \/ FetchTimesOut(w)
    BY <2>6, FetchKeeps, FetchTimesOutKeeps
  <2> QED BY <1>6, <2>1, <2>2, <2>3, <2>4, <2>5, <2>6 DEF HandlerStep
<1>7. CASE WorkflowStep
  BY <1>7, WorkflowStepKeeps
<1>8. CASE (\E w \in Workloads : Expire(w)) \/ RestartFinops \/ RestartGateway
  BY <1>8, ExpireKeeps, RestartFinopsKeeps, RestartGatewayKeeps
<1>9. CASE UNCHANGED vars
  BY <1>9, WorkKept, FinKept, ChatKept, NotCounted
     DEF LoopInv, vars, gatewayVars
<1> QED BY <1>1, <1>2, <1>3, <1>4, <1>5, <1>6, <1>7, <1>8, <1>9 DEF Next

\* However clicks, late answers, restarts and workflow runs are interleaved, the
\* inductive invariant holds.
THEOREM LoopSound == Spec => []LoopInv
<1> QED BY InitSound, StepSound, PTL DEF Spec

\* The state of the gateway, of finops and of the workflow keeps its types: the
\* registry remembers only cards of the chat, the poller's offsets stay in
\* order, and finops waits only for a report the gateway has.
THEOREM ApprovalTypes == Spec => []TypeOK
<1>1. ASSUME LoopInv
      PROVE  TypeOK
  <2>1. FinInv /\ PollInv /\ CardsInv /\ ServingInv /\ WorkflowTypeOK
    BY <1>1 DEF LoopInv, ChatInv, WorkInv
  <2>2. \A a \in Analysts : \E S \in SUBSET Workloads : results[a] \in [S -> 1..MaxVersion]
    BY <2>1 DEF FinInv, Reports
  <2>3. \A i \in DOMAIN arrived : DOMAIN arrived[i] \subseteq Workloads
    <3>1. \A i \in 1..Len(arrived) : arrived[i] \in Reports
      BY <2>1, ElementOfSeq DEF FinInv
    <3> QED BY <2>1, <3>1, ReportDomain DEF FinInv
  <2>4. DOMAIN cards = 1..Len(cards)
    BY <2>1 DEF FinInv
  <2>5. clicks \in Seq([card : 1..Len(cards), button : {"approve", "reject"}])
    <3>1. \A i \in 1..Len(clicks) :
            clicks[i] \in [card : 1..Len(cards), button : {"approve", "reject"}]
      <4>1. \A i \in 1..Len(clicks) : clicks[i] \in [card : Nat, button : {"approve", "reject"}]
        BY <2>1, ElementOfSeq DEF PollInv
      <4> QED BY <2>1, <4>1 DEF PollInv
    <3>2. /\ Len(clicks) \in Nat
          /\ clicks \in [1..Len(clicks) -> [card : 1..Len(cards), button : {"approve", "reject"}]]
      BY <2>1, <3>1 DEF PollInv
    <3> DEFINE S == [card : 1..Len(cards), button : {"approve", "reject"}]
    <3> HIDE DEF S
    <3>3. \A f, n : n \in Nat /\ f \in [1..n -> S] => f \in Seq(S)
      BY SeqDef, Zenon
    <3> QED BY <3>2, <3>3 DEF S
  <2>6. \A i \in DOMAIN inbox : inbox[i].click \in DOMAIN clicks
    <3>1. DOMAIN inbox = 1..Len(inbox) /\ DOMAIN clicks = 1..Len(clicks)
      BY <2>1 DEF PollInv
    <3> QED BY <2>1, <3>1 DEF PollInv
  <2>7. serving.step \in {"free", "next", "dispatch"} /\ serving.left \subseteq Workloads
    BY <2>1 DEF ServingInv
  <2> QED BY <2>1, <2>2, <2>3, <2>4, <2>5, <2>6, <2>7 DEF TypeOK, FinInv, PollInv, CardsInv
<1> QED BY <1>1, LoopSound, PTL

\* However often a click is repeated or delivered again, and whenever the
\* gateway restarts, a card sends each of its workloads to GitHub at most once.
THEOREM AppliedOnce == Spec => []OneDispatchPerCard
<1>1. LoopInv => OneDispatchPerCard
  BY DEF LoopInv, ChatInv, CardsInv
<1> QED BY <1>1, LoopSound, PTL

\* Nothing of a card that a click has rejected is ever dispatched.
THEOREM RejectedForGood == Spec => []RejectedStaysRejected
<1>1. ASSUME LoopInv
      PROVE  RejectedStaysRejected
  <2>1. CardsInv
    BY <1>1 DEF LoopInv, ChatInv
  <2> QED BY <2>1 DEF CardsInv, RejectedStaysRejected
<1> QED BY <1>1, LoopSound, PTL

\* What a click applies is what its card shows, a later computation or the
\* fallback, whatever expires, restarts or is computed in between.
THEOREM NothingOlder == Spec => []NeverOlderThanShown
<1>1. LoopInv => NeverOlderThanShown
  BY DEF LoopInv, ChatInv, CardsInv
<1> QED BY <1>1, LoopSound, PTL

\* When a workload's group is empty and its last run pushed, the branch holds
\* the value dispatched last.
THEOREM LastPushDecides == Spec => []LastPushWins
<1>1. LoopInv => LastPushWins
  BY DEF LoopInv, WorkInv, GroupSound, LastPushWins
<1> QED BY <1>1, LoopSound, PTL
=============================================================================
