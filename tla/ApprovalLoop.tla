---------------------------- MODULE ApprovalLoop ----------------------------
(***************************************************************************)
(* The approval of recommendations: the analysis service (finops/app/      *)
(* main.py) computes and remembers them, the gateway (alarm/main.py) shows *)
(* them on Telegram cards and, on a click, reads them back and dispatches  *)
(* the workflow of ApplyWorkflow.                                          *)
(*                                                                         *)
(* A recommendation is abstracted to the number of its computation.  The   *)
(* gateway's handlers are coroutines that call blocking functions and      *)
(* never await in between, so they run one at a time; the polling thread   *)
(* posts clicks to them and posts again those it got no answer for.  The   *)
(* analysis service blocks its own event loop while it posts a report, and *)
(* then serves no recommendation.                                          *)
(***************************************************************************)
EXTENDS ApplyWorkflow, Sequences, FiniteSets

CONSTANTS
  Analysts,   \* /analyze requests that can be in progress together
  MaxClicks,  \* bounds for model checking: clicks of the operator,
  MaxPosts,   \* requests in the inbox, repeated ones included,
  MaxEvents   \* restarts, expired entries and failed calls

ASSUME LoopAssumption == MaxClicks \in Nat /\ MaxPosts \in Nat /\ MaxEvents \in Nat

VARIABLES
  cache,       \* _last_recommendations: version and verdict per workload
  version,     \* number of the latest computation
  todo,        \* workloads each analyst has still to analyze
  results,     \* PASS results each analyst has collected
  posting,     \* the analyst whose report the event loop of finops waits for
  arrived,     \* reports the gateway has received and not yet shown
  cards,       \* cards in the chat: the recommendations each one shows
  registry,    \* _batch_approval_registry: cards the gateway remembers
  clicks,      \* callback updates, in update_id order
  offset,      \* poller: next update to hand over
  fetched,     \* poller: last update of the list it holds
  confirmed,   \* Telegram: first update it still keeps
  inbox,       \* requests waiting for the event loop, the head in service
  serving,     \* what the handler at the head of the inbox is doing
  dispatches,  \* history: dispatch requests, in order
  rejected,    \* history: cards a reject has taken out of the registry
  events

finopsVars  == <<cache, version, todo, results, posting>>
pollVars    == <<clicks, offset, fetched, confirmed>>
gatewayVars == <<registry, arrived, inbox, serving>>
historyVars == <<dispatches, rejected>>
vars == <<workflowVars, finopsVars, cards, pollVars, gatewayVars, historyVars, events>>

Free == [step |-> "free", left |-> {}, target |-> "none", value |-> NoValue]
None == [version |-> 0, pass |-> FALSE]

TypeOK ==
  /\ WorkflowTypeOK
  /\ cache \in [Workloads -> [version : 0..MaxVersion, pass : BOOLEAN]]
  /\ version \in 0..MaxVersion
  /\ todo \in [Analysts -> SUBSET Workloads]
  /\ \A a \in Analysts : \E S \in SUBSET Workloads : results[a] \in [S -> 1..MaxVersion]
  /\ posting \in Analysts \cup {"none"}
  /\ posting # "none" => arrived # <<>>
  /\ \A i \in DOMAIN arrived : DOMAIN arrived[i] \subseteq Workloads
  /\ registry \subseteq DOMAIN cards
  /\ clicks \in Seq([card : DOMAIN cards, button : {"approve", "reject"}])
  /\ confirmed \in 1..offset /\ offset \in 1..Len(clicks) + 1 /\ fetched \in 0..Len(clicks)
  /\ \A i \in DOMAIN inbox : inbox[i].click \in DOMAIN clicks
  /\ serving.step \in {"free", "next", "dispatch"}
  /\ serving.left \subseteq Workloads
  /\ rejected \subseteq DOMAIN cards
  /\ events \in 0..MaxEvents

Init ==
  /\ WorkflowInit
  /\ cache = [w \in Workloads |-> None]
  /\ version = 0
  /\ todo = [a \in Analysts |-> {}]
  /\ results = [a \in Analysts |-> <<>>]
  /\ posting = "none"
  /\ arrived = <<>>
  /\ cards = <<>>
  /\ registry = {}
  /\ clicks = <<>>
  /\ offset = 1
  /\ fetched = 0
  /\ confirmed = 1
  /\ inbox = <<>>
  /\ serving = Free
  /\ dispatches = <<>>
  /\ rejected = {}
  /\ events = 0

Event == events < MaxEvents /\ events' = events + 1

-----------------------------------------------------------------------------
(* finops: analyses and the recommendation cache *)

\* _send_combined_report() is a blocking call inside a coroutine: until it
\* returns, no analysis goes on and no request is served.
LoopFree == posting = "none"

\* /analyze names one workload, /analyze/namespace and /analyze/batch find many.
StartAnalysis(a) ==
  /\ LoopFree
  /\ todo[a] = {} /\ results[a] = <<>>
  /\ \E S \in SUBSET Workloads \ {{}} :
       /\ version + Cardinality(S) <= MaxVersion
       /\ todo' = [todo EXCEPT ![a] = S]
  /\ UNCHANGED <<workflowVars, cache, version, results, posting, cards, pollVars, gatewayVars,
                 historyVars, events>>

\* Mutant of Remember: an analysis does not replace what a card may show.
RememberFirst(w, pass) ==
  cache' = [cache EXCEPT ![w] = IF @ # None THEN @
                                ELSE [version |-> version + 1, pass |-> pass]]

\* _store_recommendation(): whatever the verdict, the latest result is kept.
Remember(w, pass) ==
  cache' = [cache EXCEPT ![w] = [version |-> version + 1, pass |-> pass]]

\* _run_analysis() of the next workload.
Analyze(a, w) ==
  /\ LoopFree
  /\ w \in todo[a]
  /\ version < MaxVersion
  /\ version' = version + 1
  /\ todo' = [todo EXCEPT ![a] = @ \ {w}]
  /\ \E pass \in BOOLEAN :
       /\ Remember(w, pass)
       /\ results' = IF pass
            THEN [results EXCEPT ![a] = [u \in DOMAIN @ \cup {w} |->
                                           IF u = w THEN version + 1 ELSE @[u]]]
            ELSE results
  /\ UNCHANGED <<workflowVars, posting, cards, pollVars, gatewayVars, historyVars, events>>

\* An exception in _run_analysis() is logged and the workload left out.
AnalysisFails(a, w) ==
  /\ Event
  /\ LoopFree
  /\ w \in todo[a]
  /\ todo' = [todo EXCEPT ![a] = @ \ {w}]
  /\ UNCHANGED <<workflowVars, cache, version, results, posting, cards, pollVars, gatewayVars,
                 historyVars>>

\* _send_combined_report() posts the PASS results, with the event loop stopped.
SendReport(a) ==
  /\ LoopFree
  /\ todo[a] = {} /\ results[a] # <<>>
  /\ posting' = a
  /\ arrived' = Append(arrived, results[a])
  /\ results' = [results EXCEPT ![a] = <<>>]
  /\ UNCHANGED <<workflowVars, cache, version, todo, cards, pollVars, registry, inbox, serving,
                 historyVars, events>>

\* After 15 seconds finops goes on; the gateway will show the card all the same.
SendTimesOut ==
  /\ ~LoopFree
  /\ posting' = "none"
  /\ UNCHANGED <<workflowVars, cache, version, todo, results, cards, pollVars, gatewayVars,
                 historyVars, events>>

\* Mutant of ShowCard: the registry is written first, also if the message fails.
ShowCardRegisteredFirst ==
  /\ arrived # <<>> /\ serving = Free
  /\ arrived' = Tail(arrived)
  /\ posting' = IF Len(arrived) = 1 THEN "none" ELSE posting
  /\ registry' = registry \cup {Len(cards) + 1}
  /\ \/ cards' = Append(cards, Head(arrived)) /\ UNCHANGED events
     \/ Event /\ UNCHANGED cards
  /\ UNCHANGED <<workflowVars, cache, version, todo, results, pollVars, inbox, serving, historyVars>>

\* handle_deploy_batch_approval(): the registry is written after the message
\* has been sent.  Telegram may have shown a message whose answer was lost.
ShowCard ==
  /\ arrived # <<>> /\ serving = Free
  /\ arrived' = Tail(arrived)
  /\ posting' = IF Len(arrived) = 1 THEN "none" ELSE posting
  /\ cards' = Append(cards, Head(arrived))
  /\ \/ registry' = registry \cup {Len(cards) + 1} /\ UNCHANGED events
     \/ Event /\ UNCHANGED registry
  /\ UNCHANGED <<workflowVars, cache, version, todo, results, pollVars, inbox, serving, historyVars>>

\* RECOMMENDATION_TTL_SECONDS have passed: the entry counts as missing.
Expire(w) ==
  /\ Event
  /\ cache[w] # None
  /\ cache' = [cache EXCEPT ![w] = None]
  /\ UNCHANGED <<workflowVars, version, todo, results, posting, cards, pollVars, gatewayVars,
                 historyVars>>

RestartFinops ==
  /\ Event
  /\ cache' = [w \in Workloads |-> None]
  /\ todo' = [a \in Analysts |-> {}]
  /\ results' = [a \in Analysts |-> <<>>]
  /\ posting' = "none"
  /\ UNCHANGED <<workflowVars, version, cards, pollVars, gatewayVars, historyVars>>

-----------------------------------------------------------------------------
(* Telegram and the poller *)

\* The buttons stay on a card until its text is edited; until then, and by
\* several operators, they may be pressed again.
Click(m, button) ==
  /\ Len(clicks) < MaxClicks
  /\ clicks' = Append(clicks, [card |-> m, button |-> button])
  /\ UNCHANGED <<workflowVars, finopsVars, cards, offset, fetched, confirmed, gatewayVars,
                 historyVars, events>>

\* The poller waits for the answer to the last request of the inbox.
Waiting == inbox # <<>> /\ inbox[Len(inbox)].waited

\* getUpdates(offset) confirms the updates before offset and lists the rest.
GetUpdates ==
  /\ ~Waiting
  /\ offset > fetched
  /\ confirmed < offset \/ fetched < Len(clicks)
  /\ confirmed' = offset
  /\ fetched' = Len(clicks)
  /\ UNCHANGED <<workflowVars, finopsVars, cards, clicks, offset, gatewayVars, historyVars, events>>

Post ==
  /\ ~Waiting
  /\ offset <= fetched
  /\ inbox' = Append(inbox, [click |-> offset, waited |-> TRUE])
  /\ UNCHANGED <<workflowVars, finopsVars, cards, pollVars, registry, arrived, serving,
                 historyVars, events>>

\* A batch in progress makes the poller wait longer than its 30 seconds: it
\* drops its list and fetches again, while the request stays in the inbox.
PostTimesOut ==
  /\ Waiting
  /\ serving # Free
  /\ Len(inbox) < MaxPosts
  /\ inbox' = [inbox EXCEPT ![Len(inbox)].waited = FALSE]
  /\ fetched' = offset - 1
  /\ UNCHANGED <<workflowVars, finopsVars, cards, clicks, offset, confirmed, registry, arrived,
                 serving, historyVars, events>>

-----------------------------------------------------------------------------
(* telegram_callback_webhook() *)

Clicked == clicks[Head(inbox).click]

\* Mutant of Answer: the offset names the update itself, not the one after it.
AnswerSame ==
  /\ inbox' = Tail(inbox)
  /\ serving' = Free
  /\ offset' = IF Head(inbox).waited THEN Head(inbox).click ELSE offset
  /\ UNCHANGED <<workflowVars, finopsVars, arrived, cards, clicks, fetched, confirmed, dispatches,
                 events>>

\* The handler returns; if the poller still waits, it goes on to the next one.
Answer ==
  /\ inbox' = Tail(inbox)
  /\ serving' = Free
  /\ offset' = IF Head(inbox).waited THEN Head(inbox).click + 1 ELSE offset
  /\ UNCHANGED <<workflowVars, finopsVars, arrived, cards, clicks, fetched, confirmed, dispatches,
                 events>>

\* The card is not, or no longer, in the registry.
AlreadyHandled ==
  /\ inbox # <<>> /\ serving = Free
  /\ Clicked.card \notin registry
  /\ Answer
  /\ UNCHANGED <<registry, rejected>>

RejectAll ==
  /\ inbox # <<>> /\ serving = Free
  /\ Clicked.button = "reject"
  /\ Clicked.card \in registry
  /\ registry' = registry \ {Clicked.card}
  /\ rejected' = rejected \cup {Clicked.card}
  /\ Answer

\* Mutant of TakeCard: the entry is read but stays in the registry.
PeekCard == UNCHANGED registry

\* registry.pop(message_id)
TakeCard == registry' = registry \ {Clicked.card}

ApproveAll ==
  /\ inbox # <<>> /\ serving = Free
  /\ Clicked.button = "approve"
  /\ Clicked.card \in registry
  /\ TakeCard
  /\ serving' = [Free EXCEPT !.step = "next", !.left = DOMAIN cards[Clicked.card]]
  /\ UNCHANGED <<workflowVars, finopsVars, arrived, cards, pollVars, inbox, historyVars, events>>

\* A value, or 0 for the fallback, is on its way to GitHub.
Take(w, v) ==
  /\ serving.step = "next"
  /\ w \in serving.left
  /\ serving' = [serving EXCEPT !.step = "dispatch", !.left = @ \ {w}, !.target = w, !.value = v]
  /\ UNCHANGED <<workflowVars, finopsVars, cards, pollVars, registry, arrived, inbox, historyVars>>

\* fetch_finops_recommendation(): GET /recommendation serves a PASS entry; the
\* 404 and the 409 lead to the fallback.
Fetch(w) ==
  /\ LoopFree
  /\ Take(w, IF cache[w].pass THEN cache[w].version ELSE 0)
  /\ UNCHANGED events

\* So does a timeout, for which it is enough that finops waits for the gateway.
FetchTimesOut(w) ==
  /\ Take(w, 0)
  /\ IF LoopFree THEN Event ELSE UNCHANGED events

\* trigger_github_workflow(): accepted, or failed (one mark in the final text).
Trigger ==
  /\ serving.step = "dispatch"
  /\ dispatches' = Append(dispatches, [card |-> Clicked.card, workload |-> serving.target,
                                       value |-> serving.value])
  /\ serving' = [serving EXCEPT !.step = "next", !.target = "none", !.value = NoValue]
  /\ \/ Dispatch(serving.target, serving.value) /\ UNCHANGED events
     \/ Event /\ UNCHANGED workflowVars
  /\ UNCHANGED <<finopsVars, arrived, cards, pollVars, registry, inbox, rejected>>

Approved ==
  /\ serving.step = "next"
  /\ serving.left = {}
  /\ Answer
  /\ UNCHANGED <<registry, rejected>>

\* The pod restarts: the registry and whatever was in progress are gone, and
\* Telegram lists again what the poller had not confirmed.
RestartGateway ==
  /\ Event
  /\ registry' = {}
  /\ arrived' = <<>>
  /\ posting' = "none"
  /\ inbox' = <<>>
  /\ serving' = Free
  /\ offset' = confirmed
  /\ fetched' = confirmed - 1
  /\ UNCHANGED <<workflowVars, cache, version, todo, results, cards, clicks, confirmed,
                 historyVars>>

-----------------------------------------------------------------------------
WorkflowStep ==
  /\ \E w \in Workloads :
       \/ RunStep(w) /\ UNCHANGED events
       \/ RunFails(w) /\ Event
  /\ UNCHANGED <<finopsVars, cards, pollVars, gatewayVars, historyVars>>

PollerStep == GetUpdates \/ Post

HandlerStep ==
  \/ AlreadyHandled \/ RejectAll \/ ApproveAll \/ Trigger \/ Approved
  \/ \E w \in Workloads : Fetch(w) \/ FetchTimesOut(w)

FinopsStep ==
  \E a \in Analysts :
    \/ StartAnalysis(a) \/ SendReport(a)
    \/ \E w \in Workloads : Analyze(a, w) \/ AnalysisFails(a, w)

Next ==
  \/ FinopsStep \/ SendTimesOut
  \/ ShowCard
  \/ \E m \in DOMAIN cards, b \in {"approve", "reject"} : Click(m, b)
  \/ PollerStep \/ PostTimesOut
  \/ HandlerStep
  \/ WorkflowStep
  \/ (\E w \in Workloads : Expire(w)) \/ RestartFinops \/ RestartGateway

Spec == Init /\ [][Next]_vars

\* The polling thread and the event loop keep running; operators, analyses and
\* GitHub need not.
FairSpec == Spec /\ WF_vars(PollerStep) /\ WF_vars(HandlerStep)

-----------------------------------------------------------------------------
\* However often a click is repeated or delivered again, and whenever the
\* gateway restarts, a card sends each of its workloads to GitHub at most once.
OneDispatchPerCard ==
  \A i, k \in DOMAIN dispatches :
    (dispatches[i].card = dispatches[k].card /\ dispatches[i].workload = dispatches[k].workload)
      => i = k

\* A card is either applied or rejected: nothing of a rejected card is ever
\* dispatched, and a card being applied cannot be rejected any more.
RejectedStaysRejected == \A i \in DOMAIN dispatches : dispatches[i].card \notin rejected

\* What is applied is what the card shows or a later computation, or else the
\* fallback; never a recommendation older than the one that was approved.
NeverOlderThanShown ==
  \A i \in DOMAIN dispatches :
    LET d == dispatches[i] IN
    d.value # 0 => /\ d.workload \in DOMAIN cards[d.card]
                   /\ d.value >= cards[d.card][d.workload]

\* Every click is answered and confirmed, although a batch that takes longer
\* than the poller's timeout is handed over again while it is in progress.
EveryClickIsAnswered ==
  \A i \in 1..MaxClicks : (i \in DOMAIN clicks) ~> (confirmed > i)

\* A click applies "the last computed final recommendation" (main.py:350): the
\* fallback is taken only for a workload whose cached result did not pass.
LatestPassIsApplied ==
  [][\A w \in Workloads :
       (serving.step = "next" /\ serving'.step = "dispatch" /\ serving'.target = w
          /\ cache[w].pass) => serving'.value = cache[w].version]_vars
=============================================================================
